---- MODULE Spec2Model ----
(***************************************************************************)
(* The top-stories pipeline: the Hacker News scraper (producer) that       *)
(* deduplicates items and publishes them to a Kafka topic with bounded     *)
(* retry, and the story-api service (consumer) that filters the topic at   *)
(* ingest time, keeps an in-memory index and answers /stories queries.     *)
(*                                                                         *)
(* Seven specifications share the module:                                    *)
(*   SpecFilter    NewStoryFilter and StoryFilter.Matches as pure          *)
(*                 functions over bounded configurations and stories       *)
(*   SpecConsumer  Server.consumeMessages, StoryStore and the /stories     *)
(*                 handler running concurrently over one topic             *)
(*   SpecQuery     the /stories handler over bounded index contents and    *)
(*                 query strings, with no ingestion going on               *)
(*   SpecRestart   SpecConsumer with restarts of the story-api process     *)
(*   SpecKeys      SpecConsumer over messages that carry their key         *)
(*   SpecProducer  Scraper.run / pollStories / addAndPublishStory /        *)
(*                 publishStoryToKafka and the write goroutines            *)
(*   SpecPolls     SpecProducer with the history of each poll kept         *)
(***************************************************************************)
EXTENDS Integers, Sequences, FiniteSets, Bags, TLC

\* ------------------------------------------------------------------ bounds

\* longest story title, in characters
MaxTitleLen == 2
\* longest configured keyword, in characters
MaxKwLen == 2
\* most entries of filter.keywords
MaxKeywords == 2
\* most entries of filter.story_types
MaxTypes == 1
\* scores and minimum_score range over -MaxScore..MaxScore
MaxScore == 1
\* most messages in the topic
MaxStream == 3
\* story ids are 1..MaxId
MaxId == 2
\* most restarts of the story-api process
MaxRestarts == 1
\* number of concurrent /stories handlers
NumReaders == 1
\* most polls of one process lifetime
MaxTicks == 2
\* longest id list the upstream source returns
MaxList == 2
\* scraper.stories_to_fetch of config.yaml
StoriesToFetch == 1
\* most write goroutines left running behind a publish timeout at once
MaxAbandoned == 1
\* the broker accepts at most this many messages from the producer
MaxWrites == 2
\* most Items of an index that is queried on its own
MaxIndex == 3

\* ----------------------------------------------------------------- strings

\* A string is a sequence of characters.  "R" is the upper-case form of "r";
\* "u" has no upper-case form in the alphabet.
Chars == {"r", "R", "u"}

\* unicode.ToLower on one character
LowerChar(c) == IF c = "R" THEN "r" ELSE c

\* strings.ToLower (story-api/main.go:118, :121)
ToLower(s) == [i \in 1..Len(s) |-> LowerChar(s[i])]

\* strings.Contains(s, substr): substr occurs in s at some offset; the empty
\* substr occurs in every s
Contains(s, substr) ==
    \E i \in 0..(Len(s) - Len(substr)) :
        SubSeq(s, i + 1, i + Len(substr)) = substr

\* all sequences over S of length at most n
RECURSIVE SeqsUpTo(_, _)
SeqsUpTo(S, n) ==
    IF n = 0 THEN {<<>>}
    ELSE LET shorter == SeqsUpTo(S, n - 1)
         IN  shorter \cup {Append(s, x) : s \in {t \in shorter : Len(t) = n - 1}, x \in S}

Range(f) == {f[i] : i \in DOMAIN f}

\* ------------------------------------------------------------------ stories

Types == {"story", "job"}
ScoreRange == (0 - MaxScore)..MaxScore

\* type Story struct (url and by are carried along and never read by the
\* filter, the store or the query handler; they are left out)
Story(id, title, score, time, type) ==
    [id |-> id, title |-> title, score |-> score, time |-> time, type |-> type]

\* the zero value of Story, as `var story Story` declares it
ZeroStory == Story(0, <<>>, 0, 0, "")

\* json.Marshal(story), and a payload that is not valid JSON
JSONOf(s) == [valid |-> TRUE, obj |-> s]
Garbage == [valid |-> FALSE, obj |-> ZeroStory]

\* kafka.Message{Key: []byte(source), Value: storyJSON}
KafkaMessage(key, value) == [key |-> key, value |-> value]

\* ------------------------------------------------------------ Filter Engine

\* type FilterConfig struct
FilterConfig(types, keywords, minimum) ==
    [story_types |-> types, keywords |-> keywords, minimum_score |-> minimum]

\* filter.enabled as NewStoryFilter computes it
FilterEnabled(cfg) ==
    \/ Len(cfg.story_types) > 0
    \/ Len(cfg.keywords) > 0
    \/ cfg.minimum_score > 0

\* NewStoryFilter: the story_types list becomes the key set of a map
NewStoryFilter(cfg) ==
    [storyTypes   |-> Range(cfg.story_types),
     keywords     |-> cfg.keywords,
     minimumScore |-> cfg.minimum_score,
     enabled      |-> FilterEnabled(cfg)]

\* KeywordMatched with the keyword compared as configured, not lower-cased
KeywordMatchedRawKeyword(f, story) ==
    LET titleLower == ToLower(story.title)
    IN  \E k \in 1..Len(f.keywords) : Contains(titleLower, f.keywords[k])

\* the keyword loop of Matches: some keyword, lower-cased, occurs in the
\* lower-cased title
KeywordMatched(f, story) ==
    LET titleLower == ToLower(story.title)
    IN  \E k \in 1..Len(f.keywords) : Contains(titleLower, ToLower(f.keywords[k]))

\* Matches without the minimum score check
MatchesNoScoreCheck(f, story) ==
    IF ~f.enabled THEN TRUE
    ELSE IF Cardinality(f.storyTypes) > 0 /\ story.type \notin f.storyTypes THEN FALSE
    ELSE IF Len(f.keywords) > 0 THEN KeywordMatched(f, story)
    ELSE TRUE

\* Matches without the keyword loop
MatchesNoKeywordCheck(f, story) ==
    IF ~f.enabled THEN TRUE
    ELSE IF Cardinality(f.storyTypes) > 0 /\ story.type \notin f.storyTypes THEN FALSE
    ELSE IF story.score < f.minimumScore THEN FALSE
    ELSE TRUE

\* Matches with the early return of a disabled filter inverted
MatchesDisabledRejects(f, story) ==
    IF ~f.enabled THEN FALSE
    ELSE IF Cardinality(f.storyTypes) > 0 /\ story.type \notin f.storyTypes THEN FALSE
    ELSE IF story.score < f.minimumScore THEN FALSE
    ELSE IF Len(f.keywords) > 0 THEN KeywordMatched(f, story)
    ELSE TRUE

\* StoryFilter.Matches, in the order of the code's early returns
Matches(f, story) ==
    IF ~f.enabled THEN TRUE
    ELSE IF Cardinality(f.storyTypes) > 0 /\ story.type \notin f.storyTypes THEN FALSE
    ELSE IF story.score < f.minimumScore THEN FALSE
    ELSE IF Len(f.keywords) > 0 THEN KeywordMatched(f, story)
    ELSE TRUE

\* ------------------------------------------------------------- Query Layer

\* int(^uint32(0) >> 1), the default of maxScore
DefaultMaxScore == 2147483647

\* One raw query parameter: absent (""), well-formed with value v, or
\* malformed.  strconv.Atoi and time.Parse(time.RFC3339, _).Unix() succeed on
\* the well-formed ones only.
Param(kind, v) == [kind |-> kind, v |-> v]
Absent == Param("absent", 0)
Malformed == Param("bad", 0)
Given(v) == Param("ok", v)

\* r.URL.Query() of one request
Query(minScore, maxScore, since, until, sort) ==
    [minScore |-> minScore, maxScore |-> maxScore, since |-> since,
     until |-> until, sort |-> sort]

\* minScore with 1 as its default
MinScoreOfDefaultOne(q) == IF q.minScore.kind = "ok" THEN q.minScore.v ELSE 1

\* maxScore assigned from strconv.Atoi whatever its error: 0 on a value that
\* does not parse
MaxScoreOfErrIgnored(q) == IF q.maxScore.kind = "absent" THEN DefaultMaxScore ELSE q.maxScore.v

\* the parsed parameters: a default stays when the parameter is empty or does
\* not parse
MinScoreOf(q) == IF q.minScore.kind = "ok" THEN q.minScore.v ELSE 0
MaxScoreOf(q) == IF q.maxScore.kind = "ok" THEN q.maxScore.v ELSE DefaultMaxScore
SinceTimeOf(q) == IF q.since.kind = "ok" THEN q.since.v ELSE 0
UntilTimeOf(q) == IF q.until.kind = "ok" THEN q.until.v ELSE 0

\* a filter loop whose score bounds are exclusive
KeptExclusiveBounds(s, q) ==
    /\ ~(s.score <= MinScoreOf(q) \/ s.score >= MaxScoreOf(q))
    /\ ~(SinceTimeOf(q) > 0 /\ s.time < SinceTimeOf(q))
    /\ ~(UntilTimeOf(q) > 0 /\ s.time > UntilTimeOf(q))

\* the filter loop of handleGetStories: the story is appended to `filtered`
Kept(s, q) ==
    /\ ~(s.score < MinScoreOf(q) \/ s.score > MaxScoreOf(q))
    /\ ~(SinceTimeOf(q) > 0 /\ s.time < SinceTimeOf(q))
    /\ ~(UntilTimeOf(q) > 0 /\ s.time > UntilTimeOf(q))

\* a less function for `oldest` that compares like the one for `latest`
LessOldestDescending(sortBy, a, b) ==
    CASE sortBy = "oldest"     -> a.time > b.time
      [] sortBy = "popularity" -> a.score > b.score
      [] OTHER                 -> a.time > b.time

\* a switch whose default case does not sort
LessDefaultUnsorted(sortBy, a, b) ==
    CASE sortBy = "oldest"     -> a.time < b.time
      [] sortBy = "popularity" -> a.score > b.score
      [] sortBy = "latest"     -> a.time > b.time
      [] OTHER                 -> FALSE

\* the less function sort.Slice is given for each sort parameter
Less(sortBy, a, b) ==
    CASE sortBy = "oldest"     -> a.time < b.time
      [] sortBy = "popularity" -> a.score > b.score
      [] OTHER                 -> a.time > b.time

\* the orders of the pointers in A that sort.Slice can leave: no element is
\* less than one before it.  The input order is a map iteration order and
\* sort.Slice is not stable, so every such order can come out.
SortedOrders(A, h, sortBy) ==
    {o \in [1..Cardinality(A) -> A] :
        /\ \A i, j \in 1..Cardinality(A) : i # j => o[i] # o[j]
        /\ \A i, j \in 1..Cardinality(A) : i < j => ~Less(sortBy, h[o[j]], h[o[i]])}

\* ------------------------------------------------------------------- state

VARIABLES
    \* SpecFilter: one evaluation of the Filter Engine
    mpc,            \* "config", "built" (NewStoryFilter ran), "done" (Matches ran)
    mCfg,           \* the FilterConfig under evaluation
    mStory,         \* the Story under evaluation
    mFilter,        \* the StoryFilter built from mCfg
    mResult,        \* what Matches returned
    \* the Kafka topic: the sequence of messages appended so far
    broker,
    \* Consumer/Store (story-api)
    config,         \* Server.config.Filter
    filter,         \* Server.filter
    ctxDone,        \* Server.ctx has been cancelled
    offset,         \* number of messages the reader has handed out
    cpc,            \* position of consumeMessages
    msg,            \* msg.Value of the message being processed
    story,          \* address of the loop body's `story` variable (0: none)
    fieldIdx,       \* next field json.Unmarshal writes
    heap,           \* the Story objects allocated so far, by address
    stories,        \* StoryStore.stories: id -> address of a Story (0: no entry)
    writerPending,  \* AddStory has called mu.Lock and not yet unlocked
    rcount,         \* number of holders of mu.RLock
    rpc,            \* position of each /stories handler
    rquery,         \* the query parameters of each handler's request
    rsnap,          \* the pointers GetAllStories returned to each handler
    rfilt,          \* the pointers each handler kept after filtering
    rread,          \* the records each handler has read through its pointers
    resp,           \* the response body each handler encoded
    rindex,         \* history: the Items of the index when GetAllStories copied it
    fetchLog,       \* history: the offsets FetchMessage handed to the loop
    storedLog,      \* history: the offsets whose story AddStory stored
    restarts,       \* number of times the story-api process was started again
    consumedBefore, \* history: the offsets handed out before the last restart
    lateLog,        \* history: the offsets handed out after s.cancel() had run
    \* Producer/Scraper
    pctx,           \* Scraper.ctx has been cancelled
    exited,         \* the scraper process has exited
    seenStories,    \* Scraper.seenStories: the ids marked seen
    ppc,            \* position of the goroutine that runs Scraper.run
    tick,           \* number of polls started
    srcOrder,       \* the order in which this poll ranges over `sources`
    srcIdx,         \* index into srcOrder of the current source
    ids,            \* the id list of the current source, truncated
    idIdx,          \* index into ids of the current id
    pstory,         \* the story fetchStory returned
    attempt,        \* publishStoryToKafka: the loop variable
    backoffDuration, \* publishStoryToKafka: the next backoff, in seconds
    errChan,        \* errChan of the current attempt: "empty", "nil" or "err"
    inflight,       \* the messages of the write goroutines that were left
                    \* running and whose WriteMessages has not returned (a bag)
    pubs,           \* history: the latest call of publishStoryToKafka
    skipped,        \* history: the ids fetchStory returned without a title
    exhausted,      \* history: the ids whose publish ran out of retries
    listFailed,     \* history: the sources whose fetchStoryIDs failed in this poll
    lateTick,       \* history: the ticker fired when ctx was cancelled already
    listed,         \* history: the id list fetchStoryIDs returned, before the cut
    fetchedAt,      \* history: the <<source, position>> pairs of this poll for
                    \* which fetchStory was called
    fetchFailed,    \* history: the ids for which a call of fetchStory failed
    traced          \* the three histories above are kept (fixed by Init)

filterVars == <<mpc, mCfg, mStory, mFilter, mResult>>
readerVars == <<rpc, rquery, rsnap, rfilt, rread, resp, rindex>>
restartVars == <<restarts, consumedBefore>>
consumerVars ==
    <<config, filter, ctxDone, offset, cpc, msg, story, fieldIdx, heap, stories,
      writerPending, rcount, fetchLog, storedLog, restartVars, lateLog>>
loopVars == <<tick, srcOrder, srcIdx, ids, idIdx, pstory>>
pubVars == <<attempt, backoffDuration, errChan>>
pollHist == <<listed, fetchedAt, fetchFailed>>
histVars == <<skipped, exhausted, listFailed, lateTick, pollHist>>
producerVars ==
    <<pctx, exited, seenStories, ppc, loopVars, pubVars, inflight, pubs, histVars,
      traced>>
vars == <<filterVars, broker, consumerVars, readerVars, producerVars>>

\* --------------------------------------------------------------- SpecFilter

\* filter.story_types lists
TypeLists == SeqsUpTo(Types, MaxTypes)
\* keyword strings and filter.keywords lists
KeywordStrings == SeqsUpTo(Chars, MaxKwLen)
KeywordLists == SeqsUpTo(KeywordStrings, MaxKeywords)
Titles == SeqsUpTo(Chars, MaxTitleLen)

FilterConfigs ==
    {FilterConfig(t, k, m) : t \in TypeLists, k \in KeywordLists, m \in ScoreRange}

\* the scores of the stories under evaluation: one of them lies below every
\* configurable minimum_score
FilterScores == (0 - MaxScore - 1)..MaxScore

FilterStories ==
    {Story(1, t, s, 100, ty) : t \in Titles, s \in FilterScores, ty \in Types}

\* the configuration with no constraint
PassthroughConfig == FilterConfig(<<>>, <<>>, 0)

FilterIdle ==
    /\ mpc = "config"
    /\ mCfg = PassthroughConfig
    /\ mStory = ZeroStory
    /\ mFilter = NewStoryFilter(PassthroughConfig)
    /\ mResult = FALSE

FilterInit ==
    /\ mpc = "config"
    /\ mCfg \in FilterConfigs
    /\ mStory \in FilterStories
    /\ mFilter = NewStoryFilter(PassthroughConfig)
    /\ mResult = FALSE

\* NewStoryFilter(cfg.Filter), as NewServer calls it
BuildFilter ==
    /\ mpc = "config"
    /\ mFilter' = NewStoryFilter(mCfg)
    /\ mpc' = "built"
    /\ UNCHANGED <<mCfg, mStory, mResult>>

\* s.filter.Matches(&story)
EvalMatches ==
    /\ mpc = "built"
    /\ mResult' = Matches(mFilter, mStory)
    /\ mpc' = "done"
    /\ UNCHANGED <<mCfg, mStory, mFilter>>

\* ------------------------------------------------------------- SpecProducer

\* maxRetries of publishStoryToKafka
MaxRetries == 5

\* the two orders a range over the `sources` map can take
SourceOrders == {<<"top", "new">>, <<"new", "top">>}

\* the id lists /topstories.json and /newstories.json can return: no id twice
IdLists ==
    {l \in SeqsUpTo(1..MaxId, MaxList) : \A i, j \in 1..Len(l) : i # j => l[i] # l[j]}

\* the list taken as the upstream source returned it
Untruncated(l, n) == l

\* ids = ids[:s.storiesToFetch] when the list is longer
Truncate(l, n) == IF Len(l) > n THEN SubSeq(l, 1, n) ELSE l

\* what /item/<id>.json can decode into: the item, or a deleted or dead item
\* that has no title
UpstreamStories(id) == {Story(id, t, MaxScore, 100, "story") : t \in {<<>>, <<"R">>}}

\* NewScraper, and run() about to make its first poll
ProducerInit ==
    /\ pctx = FALSE
    /\ exited = FALSE
    /\ seenStories = {}
    /\ ppc = "poll"
    /\ tick = 1
    /\ srcOrder = <<"top", "new">>
    /\ srcIdx = 1
    /\ ids = <<>>
    /\ idIdx = 1
    /\ pstory = ZeroStory
    /\ attempt = 0
    /\ backoffDuration = 1
    /\ errChan = "empty"
    /\ inflight = EmptyBag
    /\ pubs = <<>>
    /\ skipped = {}
    /\ exhausted = {}
    /\ listFailed = {}
    /\ lateTick = FALSE
    /\ listed = <<>>
    /\ fetchedAt = {}
    /\ fetchFailed = {}

\* what the scraper's steps leave alone
ProducerFrame == UNCHANGED <<filterVars, consumerVars, readerVars, traced>>

\* the value a poll history takes: x where the histories are kept
Recorded(x, none) == IF traced THEN x ELSE none

\* the select of publishStoryToKafka without a ctx.Done() case
AfterCancelIgnored == ppc

\* closing ctx.Done() wakes a select that is parked on it with that case
AfterCancel == IF ppc = "parked" THEN "cancelled" ELSE ppc

\* main's signal goroutine: a signal arrives and scraper.stop() cancels ctx
ScraperSignal ==
    /\ ~exited
    /\ ~pctx
    /\ pctx' = TRUE
    /\ ppc' = AfterCancel
    /\ UNCHANGED <<exited, seenStories, loopVars, pubVars, inflight, pubs, broker>>
    /\ ProducerFrame
    /\ UNCHANGED histVars

\* main without the sleep and os.Exit that follow scraper.stop()
ForceExitNeverArmed == FALSE

\* the signal goroutine is past scraper.stop() and in its 3 second sleep
ForceExitArmed == pctx

\* the process has ended: the locals of its goroutines are gone
ProcessGone ==
    /\ srcOrder' = <<"top", "new">>
    /\ srcIdx' = 1
    /\ ids' = <<>>
    /\ idIdx' = 1
    /\ pstory' = ZeroStory
    /\ attempt' = 0
    /\ backoffDuration' = 1
    /\ errChan' = "empty"

\* main's signal goroutine: 3 seconds after the signal, os.Exit(0); every
\* goroutine ends with the process
ForceExit ==
    /\ ~exited
    /\ ForceExitArmed
    /\ exited' = TRUE
    /\ ppc' = "exited"
    /\ inflight' = EmptyBag
    /\ ProcessGone
    /\ UNCHANGED <<pctx, seenStories, tick, pubs, broker>>
    /\ ProducerFrame
    /\ listed' = <<>>
    /\ fetchedAt' = {}
    /\ UNCHANGED <<skipped, exhausted, listFailed, lateTick, fetchFailed>>

\* pollStories begins: the range over the sources map fixes an order
PollStories ==
    /\ ppc = "poll"
    /\ \E o \in SourceOrders : srcOrder' = o
    /\ srcIdx' = 1
    /\ ppc' = "source"
    /\ UNCHANGED <<pctx, exited, seenStories, tick, ids, idIdx, pstory, pubVars, inflight,
                   pubs, broker>>
    /\ ProducerFrame
    /\ listFailed' = {}
    /\ UNCHANGED <<skipped, exhausted, lateTick, pollHist>>

\* pollStories without its shutdown checks
CtxNeverDone == FALSE

\* select { case <-s.ctx.Done(): return; default: } of pollStories
CtxDone == pctx

\* pollStories returns: its locals are gone
PollReturns ==
    /\ ppc' = "run"
    /\ srcOrder' = <<"top", "new">>
    /\ srcIdx' = 1
    /\ ids' = <<>>
    /\ idIdx' = 1
    /\ pstory' = ZeroStory

\* head of the loop over the sources: pollStories returns when they are
\* exhausted or when ctx is done
SourceLoop ==
    /\ ppc = "source"
    /\ IF srcIdx > Len(srcOrder) \/ CtxDone
       THEN PollReturns
       ELSE ppc' = "fetchIDs" /\ UNCHANGED <<srcOrder, srcIdx, ids, idIdx, pstory>>
    /\ UNCHANGED <<pctx, exited, seenStories, tick, pubVars, inflight, pubs, broker>>
    /\ ProducerFrame
    /\ fetchedAt' = IF ppc' = "run" THEN {} ELSE fetchedAt
    /\ UNCHANGED <<skipped, exhausted, listFailed, lateTick, listed, fetchFailed>>

\* fetchStoryIDs returns a list, which is cut to storiesToFetch
FetchStoryIDs ==
    /\ ppc = "fetchIDs"
    /\ \E l \in IdLists : listed' = Recorded(l, <<>>) /\ ids' = Truncate(l, StoriesToFetch)
    /\ idIdx' = 1
    /\ ppc' = "id"
    /\ UNCHANGED <<pctx, exited, seenStories, tick, srcOrder, srcIdx, pstory, pubVars,
                   inflight, pubs, broker>>
    /\ ProducerFrame
    /\ UNCHANGED <<skipped, exhausted, listFailed, lateTick, fetchedAt, fetchFailed>>

\* an id-list error that ends the poll
ListErrorReturns == "run"

\* `continue` after the id-list error
AfterListError == "source"

\* fetchStoryIDs returns an error: logged, continue with the next source
FetchStoryIDsError ==
    /\ ppc = "fetchIDs"
    /\ srcIdx' = srcIdx + 1
    /\ ppc' = AfterListError
    /\ UNCHANGED <<pctx, exited, seenStories, tick, srcOrder, ids, idIdx, pstory, pubVars,
                   inflight, pubs, broker>>
    /\ ProducerFrame
    /\ listFailed' = listFailed \cup {srcOrder[srcIdx]}
    /\ UNCHANGED <<skipped, exhausted, lateTick, pollHist>>

\* fetchStory called for the ids that are not in the seen set only
FetchedIfUnseen(id) == id \notin seenStories

\* story, err := s.fetchStory(id) follows the shutdown check of the loop body
\* with no condition on the id
Fetched(id) == TRUE

\* head of the loop over the ids: the next source when they are exhausted,
\* return from pollStories when ctx is done
IdLoop ==
    /\ ppc = "id"
    /\ IF idIdx > Len(ids)
       THEN /\ srcIdx' = srcIdx + 1
            /\ ppc' = "source"
            /\ ids' = <<>>
            /\ idIdx' = 1
            /\ pstory' = ZeroStory
            /\ UNCHANGED srcOrder
       ELSE IF CtxDone
            THEN PollReturns
            ELSE IF Fetched(ids[idIdx])
                 THEN ppc' = "fetchStory" /\ UNCHANGED <<srcOrder, srcIdx, ids, idIdx, pstory>>
                 ELSE idIdx' = idIdx + 1 /\ UNCHANGED <<ppc, srcOrder, srcIdx, ids, pstory>>
    /\ UNCHANGED <<pctx, exited, seenStories, tick, pubVars, inflight, pubs, broker>>
    /\ ProducerFrame
    /\ listed' = IF ppc' \in {"source", "run"} THEN <<>> ELSE listed
    /\ fetchedAt' = IF ppc' = "run" THEN {} ELSE fetchedAt
    /\ UNCHANGED <<skipped, exhausted, listFailed, lateTick, fetchFailed>>

\* every item is processed, with or without a title
AnyTitle(st) == TRUE

\* story.Title != ""
HasTitle(st) == st.title # <<>>

\* fetchStory returns the item; one without a title is passed over
FetchStory ==
    /\ ppc = "fetchStory"
    /\ \E st \in UpstreamStories(ids[idIdx]) :
          /\ pstory' = st
          /\ IF HasTitle(st)
             THEN idIdx' = idIdx /\ ppc' = "add"
             ELSE idIdx' = idIdx + 1 /\ ppc' = "id"
    /\ UNCHANGED <<pctx, exited, seenStories, tick, srcOrder, srcIdx, ids, pubVars,
                   inflight, pubs, broker>>
    /\ ProducerFrame
    /\ skipped' = IF pstory'.title = <<>> THEN skipped \cup {pstory'.id} ELSE skipped
    /\ fetchedAt' = Recorded(fetchedAt \cup {<<srcOrder[srcIdx], idIdx>>}, {})
    /\ UNCHANGED <<exhausted, listFailed, lateTick, listed, fetchFailed>>

\* the failed fetch made again for the same id
FetchRetried(i) == i

\* `continue` after the item error: the range goes on to the next id
AfterFetchError(i) == i + 1

\* fetchStory returns an error: logged, continue with the next id
FetchStoryError ==
    /\ ppc = "fetchStory"
    /\ idIdx' = AfterFetchError(idIdx)
    /\ ppc' = "id"
    /\ UNCHANGED <<pctx, exited, seenStories, tick, srcOrder, srcIdx, ids, pstory, pubVars,
                   inflight, pubs, broker>>
    /\ ProducerFrame
    /\ fetchedAt' = Recorded(fetchedAt \cup {<<srcOrder[srcIdx], idIdx>>}, {})
    /\ fetchFailed' = Recorded(fetchFailed \cup {ids[idIdx]}, {})
    /\ UNCHANGED <<skipped, exhausted, listFailed, lateTick, listed>>

\* addAndPublishStory without its check of the seen set
NeverSeen(id) == FALSE

\* an id counts as seen only when its publish did not run out of retries
SeenUnlessExhausted(id) == id \in seenStories /\ id \notin exhausted

\* s.seenStories[story.ID]
AlreadySeen(id) == id \in seenStories

\* addAndPublishStory under s.mu: an id already seen is passed over; a new
\* one is marked seen and publishStoryToKafka is called
AddAndPublishStory ==
    /\ ppc = "add"
    /\ IF AlreadySeen(pstory.id)
       THEN /\ idIdx' = idIdx + 1
            /\ ppc' = "id"
            /\ UNCHANGED <<seenStories, pubVars, pubs>>
       ELSE /\ seenStories' = seenStories \cup {pstory.id}
            /\ attempt' = 0
            /\ backoffDuration' = 1
            /\ errChan' = "empty"
            /\ pubs' = <<[id |-> pstory.id, source |-> srcOrder[srcIdx],
                         attempts |-> 0, waits |-> <<>>, result |-> "running"]>>
            /\ idIdx' = idIdx
            /\ ppc' = "attempt"
    /\ UNCHANGED <<pctx, exited, tick, srcOrder, srcIdx, ids, pstory, inflight, broker>>
    /\ ProducerFrame
    /\ UNCHANGED histVars

\* publishStoryToKafka returns res and the error ends pollStories
PublishReturnsEndsPoll(res) ==
    /\ pubs' = [pubs EXCEPT ![Len(pubs)].result = res]
    /\ idIdx' = idIdx
    /\ ppc' = "run"
    /\ attempt' = 0
    /\ backoffDuration' = 1
    /\ errChan' = "empty"

\* publishStoryToKafka returns res; addAndPublishStory logs an error and
\* returns, and the loop over the ids goes on
PublishReturns(res) ==
    /\ pubs' = [pubs EXCEPT ![Len(pubs)].result = res]
    /\ idIdx' = idIdx + 1
    /\ ppc' = "id"
    /\ attempt' = 0
    /\ backoffDuration' = 1
    /\ errChan' = "empty"

\* head of the retry loop: return when ctx is done, else start a goroutine
\* that calls WriteMessages on a fresh errChan and wait on the select
PublishAttempt ==
    /\ ppc = "attempt"
    /\ IF pctx
       THEN PublishReturns("shutdown")
       ELSE /\ errChan' = "empty"
            /\ pubs' = [pubs EXCEPT ![Len(pubs)].attempts = @ + 1]
            /\ ppc' = "select"
            /\ UNCHANGED <<idIdx, attempt, backoffDuration>>
    /\ UNCHANGED <<pctx, exited, seenStories, tick, srcOrder, srcIdx, ids, pstory, inflight,
                   broker>>
    /\ ProducerFrame
    /\ UNCHANGED histVars

\* kafka.Message{Key: []byte(source), Value: storyJSON} of the current call
CurrentMsg == KafkaMessage(srcOrder[srcIdx], JSONOf(pstory))

\* the goroutine of the current attempt is still inside WriteMessages
Writing == ppc \in {"select", "parked", "cancelled"} /\ errChan = "empty"

\* a send on errChan wakes a select that is parked on it with that case
AfterSend == IF ppc = "parked" THEN "recv" ELSE ppc

\* the select finds no case ready and parks the goroutine
SelectPark ==
    /\ ppc = "select"
    /\ errChan = "empty"
    /\ ~pctx
    /\ ppc' = "parked"
    /\ UNCHANGED <<pctx, exited, seenStories, loopVars, pubVars, inflight, pubs, broker>>
    /\ ProducerFrame
    /\ UNCHANGED histVars

\* the goroutine of the current attempt: WriteMessages returns nil and the
\* message is on the topic; nil goes to errChan
WriteMessagesOK ==
    /\ Writing
    /\ Len(broker) < MaxWrites
    /\ broker' = Append(broker, CurrentMsg)
    /\ errChan' = "nil"
    /\ ppc' = AfterSend
    /\ UNCHANGED <<pctx, exited, seenStories, loopVars, attempt, backoffDuration,
                   inflight, pubs>>
    /\ ProducerFrame
    /\ UNCHANGED histVars

\* the goroutine of the current attempt: WriteMessages returns an error (its
\* 5 second deadline included) and nothing is appended
WriteMessagesError ==
    /\ Writing
    /\ errChan' = "err"
    /\ ppc' = AfterSend
    /\ UNCHANGED <<pctx, exited, seenStories, loopVars, attempt, backoffDuration,
                   inflight, pubs, broker>>
    /\ ProducerFrame
    /\ UNCHANGED histVars

\* a goroutine that was left running: WriteMessages returns nil and the
\* message is on the topic; nobody receives from its errChan
AbandonedWriteOK ==
    \E m \in BagToSet(inflight) :
        /\ Len(broker) < MaxWrites
        /\ broker' = Append(broker, m)
        /\ inflight' = inflight (-) SetToBag({m})
        /\ UNCHANGED <<pctx, exited, seenStories, ppc, loopVars, pubVars, pubs>>
        /\ ProducerFrame
        /\ UNCHANGED histVars

\* a goroutine that was left running: WriteMessages returns an error
AbandonedWriteError ==
    \E m \in BagToSet(inflight) :
        /\ inflight' = inflight (-) SetToBag({m})
        /\ UNCHANGED <<pctx, exited, seenStories, ppc, loopVars, pubVars, pubs, broker>>
        /\ ProducerFrame
        /\ UNCHANGED histVars

\* select: errChan delivers the result, to a parked select or to one that
\* finds it ready on entry; nil ends the call
PublishResult ==
    /\ ppc = "recv" \/ (ppc = "select" /\ errChan # "empty")
    /\ IF errChan = "nil"
       THEN PublishReturns("ok")
       ELSE ppc' = "afterSelect" /\ UNCHANGED <<idIdx, pubs, pubVars>>
    /\ UNCHANGED <<pctx, exited, seenStories, tick, srcOrder, srcIdx, ids, pstory, inflight,
                   broker>>
    /\ ProducerFrame
    /\ UNCHANGED histVars

\* the select is left by another case than errChan: a goroutine that has not
\* sent its result yet keeps running
LeftRunning == IF Writing THEN inflight (+) SetToBag({CurrentMsg}) ELSE inflight

\* select: time.After(6 * time.Second) fires on a parked select (a result
\* sent or a cancel made earlier would have ended the select)
PublishTimeout ==
    /\ ppc = "parked"
    /\ BagCardinality(inflight) < MaxAbandoned
    /\ inflight' = LeftRunning
    /\ ppc' = "afterSelect"
    /\ UNCHANGED <<pctx, exited, seenStories, loopVars, pubVars, pubs, broker>>
    /\ ProducerFrame
    /\ UNCHANGED histVars

\* select: ctx.Done() wakes a parked select, or is found ready on entry,
\* alone or together with errChan, and is the case chosen
PublishShutdown ==
    /\ ppc = "cancelled" \/ (ppc = "select" /\ pctx)
    /\ inflight' = LeftRunning
    /\ PublishReturns("shutdown")
    /\ UNCHANGED <<pctx, exited, seenStories, tick, srcOrder, srcIdx, ids, pstory, broker>>
    /\ ProducerFrame
    /\ UNCHANGED histVars

\* after a failed attempt: return when ctx is done; back off when retries are
\* left; else the loop ends and the call returns the error
PublishAfterSelect ==
    /\ ppc = "afterSelect"
    /\ IF pctx THEN PublishReturns("shutdown")
       ELSE IF attempt < MaxRetries
            THEN ppc' = "backoff" /\ UNCHANGED <<idIdx, pubs, pubVars>>
            ELSE PublishReturns("exhausted")
    /\ UNCHANGED <<pctx, exited, seenStories, tick, srcOrder, srcIdx, ids, pstory, inflight,
                   broker>>
    /\ ProducerFrame
    /\ exhausted' = IF ~pctx /\ attempt >= MaxRetries THEN exhausted \cup {pstory.id} ELSE exhausted
    /\ UNCHANGED <<skipped, listFailed, lateTick, pollHist>>

\* the backoff growing by one second instead of doubling
NextBackoffAdditive(d) == d + 1

\* backoffDuration *= 2
NextBackoff(d) == d * 2

\* the backoff sleep ends before any cancel: the backoff doubles and the next
\* attempt begins
BackoffElapsed ==
    /\ ppc = "backoff"
    /\ ~pctx
    /\ pubs' = [pubs EXCEPT ![Len(pubs)].waits = Append(@, backoffDuration)]
    /\ backoffDuration' = NextBackoff(backoffDuration)
    /\ attempt' = attempt + 1
    /\ ppc' = "attempt"
    /\ UNCHANGED <<pctx, exited, seenStories, loopVars, errChan, inflight, broker>>
    /\ ProducerFrame
    /\ UNCHANGED histVars

\* the backoff sleep is cut short by ctx.Done()
BackoffShutdown ==
    /\ ppc = "backoff"
    /\ pctx
    /\ PublishReturns("shutdown")
    /\ UNCHANGED <<pctx, exited, seenStories, tick, srcOrder, srcIdx, ids, pstory, inflight,
                   broker>>
    /\ ProducerFrame
    /\ UNCHANGED histVars

\* run's select: the ticker fires and the next poll begins
RunTick ==
    /\ ppc = "run"
    /\ tick < MaxTicks
    /\ tick' = tick + 1
    /\ ppc' = "poll"
    /\ UNCHANGED <<pctx, exited, seenStories, srcOrder, srcIdx, ids, idIdx, pstory, pubVars,
                   inflight, pubs, broker>>
    /\ ProducerFrame
    /\ lateTick' = pctx
    /\ UNCHANGED <<skipped, exhausted, listFailed, pollHist>>

\* run's select: ctx.Done() is ready; a goroutine calls kafkaWriter.Close()
RunShutdown ==
    /\ ppc = "run"
    /\ pctx
    /\ ppc' = "closing"
    /\ UNCHANGED <<pctx, exited, seenStories, loopVars, pubVars, inflight, pubs, broker>>
    /\ ProducerFrame
    /\ UNCHANGED histVars

\* Close() has waited for the pending writes and returns; run and main return
CloseDone ==
    /\ ppc = "closing"
    /\ inflight = EmptyBag
    /\ ppc' = "exited"
    /\ exited' = TRUE
    /\ UNCHANGED <<pctx, seenStories, loopVars, pubVars, inflight, pubs, broker>>
    /\ ProducerFrame
    /\ UNCHANGED histVars

\* the 2 second shutdownCtx expires first; run and main return and the
\* goroutines end with the process
CloseTimeout ==
    /\ ppc = "closing"
    /\ ppc' = "exited"
    /\ exited' = TRUE
    /\ inflight' = EmptyBag
    /\ UNCHANGED <<pctx, seenStories, loopVars, pubVars, pubs, broker>>
    /\ ProducerFrame
    /\ UNCHANGED histVars

\* ------------------------------------------------------------- SpecConsumer

Readers == 1..NumReaders
\* the keys StoryStore.stories can get: the ids on the topic, and 0, the id of
\* a payload that names none
StoreIds == 0..MaxId


\* the stories and message values the topic can carry
TopicStories ==
    {Story(id, <<"R">>, s, 100, "story") : id \in 1..MaxId, s \in {0, MaxScore}}
TopicValues == {JSONOf(s) : s \in TopicStories} \cup {Garbage}
\* the messages of the topic; the consumer never reads the key
TopicMessages == {KafkaMessage("top", v) : v \in TopicValues}

\* the keys the producer gives its messages, and the messages of a topic
\* whose keys vary
TopicKeys == {"top", "new"}
KeyedMessages == {KafkaMessage(k, v) : k \in TopicKeys, v \in TopicValues}

\* the filter sections of the instances' config.yaml
ConsumerConfigs ==
    {PassthroughConfig, FilterConfig(<<>>, <<>>, MaxScore)}

\* the requests the handlers serve
ConsumerQueries ==
    {Query(Absent, Absent, Absent, Absent, ""),
     Query(Given(MaxScore), Absent, Absent, Absent, "popularity")}

\* the scores and timestamps of the Items of a queried index
QueryScores == (0 - MaxScore)..(MaxScore + 1)
QueryTimes == {100, 200, 300}

\* the Items an index can hold under id
QueryStories(id) == {Story(id, <<"R">>, sc, t, "story") : sc \in QueryScores, t \in QueryTimes}

\* the records of the index contents that are queried: up to MaxIndex Items
\* of different ids, one content for all that differ in the ids only
QueryIndexes ==
    UNION {{h \in [1..n -> UNION {QueryStories(id) : id \in StoreIds}] :
               /\ \A i \in 1..n : h[i].id = i - 1
               /\ \A i \in 1..(n - 1) :
                     \/ h[i].score < h[i + 1].score
                     \/ h[i].score = h[i + 1].score /\ h[i].time <= h[i + 1].time} :
           n \in 0..MaxIndex}

\* the raw values of minScore, maxScore, since and until: none, one that
\* does not parse, and values that parse (for minScore also one above the
\* maxScore values, for until also the epoch, 1970-01-01T00:00:00Z)
MinScoreParams == {Absent, Malformed, Given(MaxScore), Given(MaxScore + 1)}
MaxScoreParams == {Absent, Malformed, Given(MaxScore)}
SinceParams == {Absent, Malformed, Given(200)}
UntilParams == {Absent, Malformed, Given(200), Given(0)}
SortParams == {"", "latest", "oldest", "popularity", "bogus"}

\* the query strings of the requests
QueryInputs ==
    {Query(mn, mx, si, un, so) :
        mn \in MinScoreParams, mx \in MaxScoreParams, si \in SinceParams, un \in UntilParams,
        so \in SortParams}

\* the fields of Story in the order json.Unmarshal meets them
FieldOrder == <<"id", "title", "score", "time", "type">>

ReaderIdle ==
    /\ rpc = [r \in Readers |-> "idle"]
    /\ rquery = [r \in Readers |-> Query(Absent, Absent, Absent, Absent, "")]
    /\ rsnap = [r \in Readers |-> {}]
    /\ rfilt = [r \in Readers |-> {}]
    /\ rread = [r \in Readers |-> {}]
    /\ resp = [r \in Readers |-> <<>>]
    /\ rindex = [r \in Readers |-> {}]

\* NewServer: an empty store, a filter built from the configuration
ConsumerInit ==
    /\ config \in ConsumerConfigs
    /\ filter = NewStoryFilter(config)
    /\ ctxDone = FALSE
    /\ offset = 0
    /\ cpc = "check"
    /\ msg = Garbage
    /\ story = 0
    /\ fieldIdx = 1
    /\ heap = <<>>
    /\ stories = [id \in StoreIds |-> 0]
    /\ writerPending = FALSE
    /\ rcount = 0
    /\ fetchLog = <<>>
    /\ storedLog = <<>>
    /\ restarts = 0
    /\ consumedBefore = {}
    /\ lateLog = {}
    /\ ReaderIdle

\* the topic receives one more message (from a producer, or from anyone)
BrokerAppend ==
    /\ Len(broker) < MaxStream
    /\ \E m \in TopicMessages : broker' = Append(broker, m)
    /\ UNCHANGED <<filterVars, consumerVars, readerVars, producerVars>>

\* the topic receives one more message, under either key
BrokerAppendKeyed ==
    /\ Len(broker) < MaxStream
    /\ \E m \in KeyedMessages : broker' = Append(broker, m)
    /\ UNCHANGED <<filterVars, consumerVars, readerVars, producerVars>>

\* start(): a signal arrives and s.cancel() runs
Shutdown ==
    /\ ~ctxDone
    /\ ctxDone' = TRUE
    /\ UNCHANGED <<filterVars, broker, readerVars, producerVars, restartVars, lateLog>>
    /\ UNCHANGED <<config, filter, offset, cpc, msg, story, fieldIdx, heap, stories,
                   writerPending, rcount, fetchLog, storedLog>>

\* what the consumer's steps leave alone
ConsumerFrame ==
    /\ UNCHANGED <<filterVars, broker, readerVars, producerVars, config, filter, ctxDone,
                   restartVars>>
    /\ lateLog' = IF ctxDone /\ offset' # offset THEN lateLog \cup {offset'} ELSE lateLog

\* a loop without the select at its head
LoopCtxNeverDone == FALSE

\* case <-s.ctx.Done() of the select at the head of the loop
LoopCtxDone == ctxDone

\* the select at the head of the loop: return when s.ctx is done
ConsumerCheckCtx ==
    /\ cpc = "check"
    /\ cpc' = IF LoopCtxDone THEN "done" ELSE "fetch"
    /\ UNCHANGED <<offset, msg, story, fieldIdx, heap, stories, writerPending, rcount,
                   fetchLog, storedLog>>
    /\ ConsumerFrame

\* a loop that decodes the messages with the key "top" only
ValueOfTopOnly(m) == IF m.key = "top" THEN m.value ELSE Garbage

\* msg.Value, the one field of the message the loop reads
MessageValue(m) == m.value

\* s.reader.FetchMessage returns the next message of the topic; the reader
\* moves past it.  (FetchMessage selects between ctx.Done and a buffered
\* message, so a message can still come out after the cancel.)
ConsumerFetchMessage ==
    /\ cpc = "fetch"
    /\ offset < Len(broker)
    /\ msg' = MessageValue(broker[offset + 1])
    /\ offset' = offset + 1
    /\ fetchLog' = Append(fetchLog, offset + 1)
    /\ cpc' = "decode"
    /\ UNCHANGED <<story, fieldIdx, heap, stories, writerPending, rcount, storedLog>>
    /\ ConsumerFrame

\* FetchMessage returns context.Canceled: the loop returns
ConsumerFetchCanceled ==
    /\ cpc = "fetch"
    /\ ctxDone
    /\ cpc' = "done"
    /\ UNCHANGED <<offset, msg, story, fieldIdx, heap, stories, writerPending, rcount,
                   fetchLog, storedLog>>
    /\ ConsumerFrame

\* FetchMessage returns another error: logged, continue
ConsumerFetchError ==
    /\ cpc = "fetch"
    /\ cpc' = "check"
    /\ UNCHANGED <<offset, msg, story, fieldIdx, heap, stories, writerPending, rcount,
                   fetchLog, storedLog>>
    /\ ConsumerFrame

\* `var story Story` declared once, outside the loop
ReusedStoryAddr(h) == 1

\* `var story Story` in the loop body: a new variable on every iteration
NewStoryAddr(h) == Len(h) + 1

\* the decode error is logged and the loop body goes on to the filter
DecodeErrorFallsThrough == "filter"

\* where the loop goes when json.Unmarshal fails: continue
AfterDecodeError == "check"

\* the rejected story is logged and the loop returns
FilteredReturns == "done"

\* the rejected story is logged and the loop body goes on to AddStory
FilteredFallsThrough == "store"

\* where the loop goes when the filter rejects the story: continue
AfterFiltered == "check"

\* `var story Story` and the validity scan of json.Unmarshal: an invalid
\* payload is an error before any field is written
ConsumerDecode ==
    /\ cpc = "decode"
    /\ LET a == NewStoryAddr(heap)
       IN  /\ story' = a
           /\ heap' = IF a > Len(heap) THEN Append(heap, ZeroStory) ELSE heap
    /\ fieldIdx' = 1
    /\ cpc' = IF msg.valid THEN "unmarshal" ELSE AfterDecodeError
    /\ UNCHANGED <<offset, msg, stories, writerPending, rcount, fetchLog, storedLog>>
    /\ ConsumerFrame

\* json.Unmarshal writes the next field of the payload into story
ConsumerUnmarshalField ==
    /\ cpc = "unmarshal"
    /\ LET f == FieldOrder[fieldIdx]
       IN  heap' = [heap EXCEPT ![story] = [@ EXCEPT ![f] = msg.obj[f]]]
    /\ IF fieldIdx = Len(FieldOrder)
       THEN fieldIdx' = 1 /\ cpc' = "filter"
       ELSE fieldIdx' = fieldIdx + 1 /\ cpc' = "unmarshal"
    /\ UNCHANGED <<offset, msg, story, stories, writerPending, rcount, fetchLog, storedLog>>
    /\ ConsumerFrame

\* a rejected story takes the entry of its id out of the index
RejectEvicts(m, id) == [m EXCEPT ![id] = 0]

\* the branch of a rejected story logs it and continues: s.store is not
\* touched
StoreAfterReject(m, id) == m

\* if !s.filter.Matches(&story) { continue }
ConsumerFilter ==
    /\ cpc = "filter"
    /\ IF Matches(filter, heap[story])
       THEN cpc' = "store" /\ UNCHANGED stories
       ELSE cpc' = AfterFiltered /\ stories' = StoreAfterReject(stories, heap[story].id)
    /\ UNCHANGED <<offset, msg, story, fieldIdx, heap, writerPending, rcount,
                   fetchLog, storedLog>>
    /\ ConsumerFrame

\* AddStory: s.mu.Lock() announces the writer; new readers wait from here on
ConsumerAddStoryLock ==
    /\ cpc = "store"
    /\ writerPending' = TRUE
    /\ cpc' = "write"
    /\ UNCHANGED <<offset, msg, story, fieldIdx, heap, stories, rcount, fetchLog, storedLog>>
    /\ ConsumerFrame

\* the entry is set only when the id has none
InsertIfAbsent(m, id, a) == IF m[id] = 0 THEN [m EXCEPT ![id] = a] ELSE m

\* the entry is replaced only by a story of at least its score
UpsertUnlessLowerScore(m, id, a) ==
    IF m[id] # 0 /\ heap[a].score < heap[m[id]].score THEN m ELSE [m EXCEPT ![id] = a]

\* s.stories[story.ID] = story
Upsert(m, id, a) == [m EXCEPT ![id] = a]

\* AddStory: the lock is held once the readers have left; the map entry is
\* set and the deferred Unlock runs
ConsumerAddStoryWrite ==
    /\ cpc = "write"
    /\ rcount = 0
    /\ stories' = Upsert(stories, heap[story].id, story)
    /\ writerPending' = FALSE
    /\ storedLog' = Append(storedLog, offset)
    /\ cpc' = "check"
    /\ UNCHANGED <<offset, msg, story, fieldIdx, heap, rcount, fetchLog>>
    /\ ConsumerFrame

\* a reader that starts at the end of the topic
LastOffset(b) == Len(b)

\* StartOffset: kafka.FirstOffset, with no GroupID: the reader starts at the
\* first message of the topic, whatever was read before
StartOffset(b) == 0

\* the process has ended after its shutdown and is started again: NewServer
\* makes an empty store and a new reader
ConsumerRestart ==
    /\ cpc = "done"
    /\ restarts < MaxRestarts
    /\ \A r \in Readers : rpc[r] = "idle"
    /\ restarts' = restarts + 1
    /\ consumedBefore' = consumedBefore \cup Range(fetchLog)
    /\ ctxDone' = FALSE
    /\ offset' = StartOffset(broker)
    /\ cpc' = "check"
    /\ msg' = Garbage
    /\ story' = 0
    /\ fieldIdx' = 1
    /\ heap' = <<>>
    /\ stories' = [id \in StoreIds |-> 0]
    /\ fetchLog' = <<>>
    /\ storedLog' = <<>>
    /\ lateLog' = {}
    /\ UNCHANGED <<filterVars, broker, readerVars, producerVars, config, filter,
                   writerPending, rcount>>

ConsumerStep ==
    \/ ConsumerCheckCtx
    \/ ConsumerFetchMessage
    \/ ConsumerFetchCanceled
    \/ ConsumerFetchError
    \/ ConsumerDecode
    \/ ConsumerUnmarshalField
    \/ ConsumerFilter
    \/ ConsumerAddStoryLock
    \/ ConsumerAddStoryWrite

\* what the handlers' steps leave alone
ReaderFrame ==
    UNCHANGED <<filterVars, broker, producerVars, config, filter, ctxDone, offset, cpc,
                msg, story, fieldIdx, heap, stories, writerPending, fetchLog, storedLog,
                restartVars, lateLog>>

\* a GET /stories request with one of the query strings Q arrives
Request(r, Q) ==
    /\ rpc[r] = "idle"
    /\ \E q \in Q : rquery' = [rquery EXCEPT ![r] = q]
    /\ rpc' = [rpc EXCEPT ![r] = "rlock"]
    /\ UNCHANGED <<rsnap, rfilt, rread, resp, rindex, rcount>>
    /\ ReaderFrame

\* a GET /stories request arrives
ReaderRequest(r) == Request(r, ConsumerQueries)

\* a GET /stories request with any of the bounded query strings arrives
QueryRequest(r) == Request(r, QueryInputs)

\* GetAllStories: s.mu.RLock(), which waits while a writer is pending
ReaderRLock(r) ==
    /\ rpc[r] = "rlock"
    /\ ~writerPending
    /\ rcount' = rcount + 1
    /\ rpc' = [rpc EXCEPT ![r] = "copy"]
    /\ UNCHANGED <<rquery, rsnap, rfilt, rread, resp, rindex>>
    /\ ReaderFrame

\* the Items the index holds: for each id with an entry, the record its
\* pointer leads to
IndexItems == {heap[stories[id]] : id \in {i \in StoreIds : stories[i] # 0}}

\* GetAllStories without its deferred RUnlock
RUnlockMissing(n) == n

\* defer s.mu.RUnlock(): one holder of the read lock less
AfterRUnlock(n) == n - 1

\* GetAllStories: the pointers of the map are copied into a slice and the
\* deferred RUnlock runs
ReaderCopy(r) ==
    /\ rpc[r] = "copy"
    /\ rsnap' = [rsnap EXCEPT ![r] = {stories[id] : id \in {i \in StoreIds : stories[i] # 0}}]
    /\ rindex' = [rindex EXCEPT ![r] = IndexItems]
    /\ rcount' = AfterRUnlock(rcount)
    /\ rpc' = [rpc EXCEPT ![r] = "filter"]
    /\ UNCHANGED <<rquery, rfilt, rread, resp>>
    /\ ReaderFrame

\* a filter loop that ranges over the map of the store as it is now
LiveIndex(r) == {stories[id] : id \in {i \in StoreIds : stories[i] # 0}}

\* `for _, story := range stories`: the slice GetAllStories returned
FilterInput(r) == rsnap[r]

\* handleGetStories: the parameters are parsed and the filter loop reads each
\* story through its pointer
ReaderFilter(r) ==
    /\ rpc[r] = "filter"
    /\ rfilt' = [rfilt EXCEPT ![r] = {a \in FilterInput(r) : Kept(heap[a], rquery[r])}]
    /\ rread' = [rread EXCEPT ![r] = {heap[a] : a \in FilterInput(r)}]
    /\ rpc' = [rpc EXCEPT ![r] = "sort"]
    /\ UNCHANGED <<rquery, rsnap, resp, rindex, rcount>>
    /\ ReaderFrame

\* a handler that removes from the store what it is about to serve
ServedEvicted(m, r) == [id \in StoreIds |-> IF m[id] \in rfilt[r] THEN 0 ELSE m[id]]

\* sort.Slice swaps the elements of `filtered`, a slice of the handler's own;
\* the map of the store is not written
StoreAfterSort(m, r) == m

\* handleGetStories: sort.Slice, then the encoder reads every kept story
\* through its pointer
ReaderRespond(r) ==
    /\ rpc[r] = "sort"
    /\ \E o \in SortedOrders(rfilt[r], heap, rquery[r].sort) :
          resp' = [resp EXCEPT ![r] = [i \in 1..Len(o) |-> heap[o[i]]]]
    /\ rread' = [rread EXCEPT ![r] = @ \cup {heap[a] : a \in rfilt[r]}]
    /\ rpc' = [rpc EXCEPT ![r] = "done"]
    /\ stories' = StoreAfterSort(stories, r)
    /\ UNCHANGED <<rquery, rsnap, rfilt, rindex, rcount>>
    /\ UNCHANGED <<filterVars, broker, producerVars, config, filter, ctxDone, offset, cpc,
                   msg, story, fieldIdx, heap, writerPending, fetchLog, storedLog,
                   restartVars, lateLog>>

\* the handler returns; its locals are gone
ReaderReturn(r) ==
    /\ rpc[r] = "done"
    /\ rpc' = [rpc EXCEPT ![r] = "idle"]
    /\ rsnap' = [rsnap EXCEPT ![r] = {}]
    /\ rfilt' = [rfilt EXCEPT ![r] = {}]
    /\ rread' = [rread EXCEPT ![r] = {}]
    /\ resp' = [resp EXCEPT ![r] = <<>>]
    /\ rindex' = [rindex EXCEPT ![r] = {}]
    /\ rquery' = [rquery EXCEPT ![r] = Query(Absent, Absent, Absent, Absent, "")]
    /\ UNCHANGED rcount
    /\ ReaderFrame

\* a GET /health request arrives
HealthRequest(r) ==
    /\ rpc[r] = "idle"
    /\ rpc' = [rpc EXCEPT ![r] = "health"]
    /\ UNCHANGED <<rquery, rsnap, rfilt, rread, resp, rindex, rcount>>
    /\ ReaderFrame

\* the /health handler encodes {"status": "ok"} and returns
HealthRespond(r) ==
    /\ rpc[r] = "health"
    /\ rpc' = [rpc EXCEPT ![r] = "idle"]
    /\ UNCHANGED <<rquery, rsnap, rfilt, rread, resp, rindex, rcount>>
    /\ ReaderFrame

ReaderStep ==
    \E r \in Readers :
        \/ HealthRequest(r)
        \/ HealthRespond(r)
        \/ ReaderRequest(r)
        \/ ReaderRLock(r)
        \/ ReaderCopy(r)
        \/ ReaderFilter(r)
        \/ ReaderRespond(r)
        \/ ReaderReturn(r)

\* ---------------------------------------------------------- specifications

InitConsumer ==
    FilterIdle /\ broker = <<>> /\ ConsumerInit /\ ProducerInit /\ traced = FALSE
NextConsumer == BrokerAppend \/ Shutdown \/ ConsumerStep \/ ReaderStep
SpecConsumer == InitConsumer /\ [][NextConsumer]_vars

InitFilter ==
    /\ FilterInit /\ broker = <<>> /\ ConsumerInit /\ config = PassthroughConfig
    /\ ProducerInit /\ traced = FALSE
NextFilter ==
    \/ BuildFilter /\ UNCHANGED <<broker, consumerVars, readerVars, producerVars>>
    \/ EvalMatches /\ UNCHANGED <<broker, consumerVars, readerVars, producerVars>>
SpecFilter == InitFilter /\ [][NextFilter]_vars

\* the story-api process over its restarts, with no request being served
InitRestart == InitConsumer
NextRestart == BrokerAppend \/ Shutdown \/ ConsumerStep \/ ConsumerRestart
SpecRestart == InitRestart /\ [][NextRestart]_vars

\* the consumer over a topic whose messages carry both keys
InitKeys == InitConsumer
NextKeys == BrokerAppendKeyed \/ Shutdown \/ ConsumerStep
SpecKeys == InitKeys /\ [][NextKeys]_vars

\* a passthrough instance that has ingested a topic of Items of different
\* ids, every one of which is in the index
InitQuery ==
    /\ FilterIdle
    /\ ProducerInit
    /\ traced = FALSE
    /\ \E h \in QueryIndexes :
          /\ heap = h
          /\ broker = [i \in 1..Len(h) |-> KafkaMessage("top", JSONOf(h[i]))]
          /\ stories = [id \in StoreIds |-> IF id + 1 <= Len(h) THEN id + 1 ELSE 0]
          /\ offset = Len(h)
          /\ fetchLog = [i \in 1..Len(h) |-> i]
          /\ storedLog = [i \in 1..Len(h) |-> i]
    /\ config = PassthroughConfig
    /\ filter = NewStoryFilter(config)
    /\ ctxDone = FALSE
    /\ cpc = "check"
    /\ msg = Garbage
    /\ story = 0
    /\ fieldIdx = 1
    /\ writerPending = FALSE
    /\ rcount = 0
    /\ restarts = 0
    /\ consumedBefore = {}
    /\ lateLog = {}
    /\ ReaderIdle
NextQuery ==
    \E r \in Readers :
        \/ QueryRequest(r)
        \/ ReaderRLock(r)
        \/ ReaderCopy(r)
        \/ ReaderFilter(r)
        \/ ReaderRespond(r)
        \/ ReaderReturn(r)
SpecQuery == InitQuery /\ [][NextQuery]_vars

InitProducer ==
    /\ FilterIdle /\ broker = <<>> /\ ConsumerInit /\ config = PassthroughConfig
    /\ ProducerInit /\ traced = FALSE
NextProducer ==
    \/ ScraperSignal
    \/ ForceExit
    \/ PollStories
    \/ SourceLoop
    \/ FetchStoryIDs
    \/ FetchStoryIDsError
    \/ IdLoop
    \/ FetchStory
    \/ FetchStoryError
    \/ AddAndPublishStory
    \/ PublishAttempt
    \/ SelectPark
    \/ WriteMessagesOK
    \/ WriteMessagesError
    \/ AbandonedWriteOK
    \/ AbandonedWriteError
    \/ PublishResult
    \/ PublishTimeout
    \/ PublishShutdown
    \/ PublishAfterSelect
    \/ BackoffElapsed
    \/ BackoffShutdown
    \/ RunTick
    \/ RunShutdown
    \/ CloseDone
    \/ CloseTimeout
SpecProducer == InitProducer /\ [][NextProducer]_vars

\* the scraper where the one step that is sure to happen is the end of the
\* signal goroutine's sleep: fetches, writes and Close() may block for ever
SpecProducerFair == SpecProducer /\ WF_vars(ForceExit)

\* the scraper with the histories of its polls kept: the lists as the
\* upstream source returned them and the calls of fetchStory
InitPolls ==
    /\ FilterIdle /\ broker = <<>> /\ ConsumerInit /\ config = PassthroughConfig
    /\ ProducerInit /\ traced = TRUE
SpecPolls == InitPolls /\ [][NextProducer]_vars


\* ------------------------------------------------------------------ claims

\* the three constraints of a Filter Configuration, each on its own
TypeConstraint(cfg, s) == cfg.story_types = <<>> \/ s.type \in Range(cfg.story_types)
ScoreConstraint(cfg, s) == s.score >= cfg.minimum_score
KeywordConstraint(cfg, s) ==
    cfg.keywords = <<>> \/ \E k \in Range(cfg.keywords) : Contains(ToLower(s.title), ToLower(k))

\* C5 (Filter AND law): once Matches has run, with enabled true its result is
\* true iff the type, score and keyword constraints all hold; with enabled
\* false its result is true.
C5_FilterAndLaw ==
    mpc = "done" =>
        IF mFilter.enabled
        THEN mResult <=> (/\ TypeConstraint(mCfg, mStory)
                          /\ ScoreConstraint(mCfg, mStory)
                          /\ KeywordConstraint(mCfg, mStory))
        ELSE mResult = TRUE

\* Matches accepted a story under a configuration that sets all three
\* constraints
C5_Witness ==
    /\ mpc = "done"
    /\ mFilter.enabled
    /\ mCfg.story_types # <<>>
    /\ mCfg.keywords # <<>>
    /\ \A k \in Range(mCfg.keywords) : k # <<>>
    /\ mCfg.minimum_score > 0
    /\ mResult = TRUE

\* sub occurs in s: s is some prefix, then sub, then some suffix
IsSubstring(sub, s) ==
    \E i, j \in 0..Len(s) :
        /\ i <= j
        /\ sub = [n \in 1..(j - i) |-> s[i + n]]

\* the strings that differ from s in letter case only
CaseForms(c) == IF c \in {"r", "R"} THEN {"r", "R"} ELSE {c}
CaseVariants(s) ==
    {t \in [1..Len(s) -> Chars] : \A i \in 1..Len(s) : t[i] \in CaseForms(s[i])}
KeywordListVariants(ks) ==
    {ls \in [1..Len(ks) -> UNION {CaseVariants(ks[i]) : i \in 1..Len(ks)}] :
        \A i \in 1..Len(ks) : ls[i] \in CaseVariants(ks[i])}

C30_EmptyTitleRejected ==
    (/\ mpc = "done"
     /\ mFilter.enabled
     /\ Len(mFilter.keywords) > 0
     /\ mStory.title = <<>>) => mResult = FALSE

\* C30 (an empty title matches no non-empty keyword): for a filter with a
\* non-empty keyword list none of whose keywords is the empty string, Matches
\* rejects a story whose title is empty.
C30_EmptyTitleRejectedByNonEmptyKeywords ==
    (/\ mpc = "done"
     /\ mFilter.enabled
     /\ Len(mFilter.keywords) > 0
     /\ \A k \in 1..Len(mFilter.keywords) : mFilter.keywords[k] # <<>>
     /\ mStory.title = <<>>) => mResult = FALSE

\* a story with an empty title that passes the type and score constraints
\* was rejected by a filter with two non-empty keywords
C30_Witness ==
    /\ mpc = "done"
    /\ Len(mFilter.keywords) = 2
    /\ \A k \in 1..Len(mFilter.keywords) : mFilter.keywords[k] # <<>>
    /\ mFilter.storyTypes = {}
    /\ mStory.score >= mFilter.minimumScore
    /\ mStory.title = <<>>
    /\ mResult = FALSE

\* C31 (enabled flag): once NewStoryFilter has run, enabled is true iff
\* story_types is non-empty, or keywords is non-empty, or minimum_score is
\* non-zero; and once Matches has run, its result is what the type, score and
\* keyword constraints evaluate to, for every configuration.
C31_EnabledIffConstraintSet ==
    /\ mpc \in {"built", "done"} =>
           (mFilter.enabled <=> \/ mCfg.story_types # <<>>
                                \/ mCfg.keywords # <<>>
                                \/ mCfg.minimum_score # 0)
    /\ mpc = "done" =>
           (mResult <=> /\ TypeConstraint(mCfg, mStory)
                        /\ ScoreConstraint(mCfg, mStory)
                        /\ KeywordConstraint(mCfg, mStory))

\* the same where neither minimum_score nor the story's score is negative
C31_WithoutNegatives ==
    (mCfg.minimum_score >= 0 /\ mStory.score >= 0) => C31_EnabledIffConstraintSet

\* C32 (keywords match whole words): with one non-empty keyword, and the type
\* and score constraints satisfied, Matches accepts a title iff the keyword
\* is a word of the title, letter case apart; a title that contains the
\* keyword only inside a longer word is rejected.  The alphabet has no
\* separator, so a title is one word and the keyword is a word of it iff the
\* two are equal.
C32_PartOfLongerWordRejected ==
    (/\ mpc = "done"
     /\ Len(mCfg.keywords) = 1
     /\ mCfg.keywords[1] # <<>>
     /\ TypeConstraint(mCfg, mStory)
     /\ ScoreConstraint(mCfg, mStory)) =>
        (mResult <=> ToLower(mStory.title) = ToLower(mCfg.keywords[1]))

\* --- Consumer/Store

\* the consumer is between two messages
AtLoopHead == cpc \in {"check", "fetch", "done"}
\* the number of messages the loop body has finished with
Processed == IF AtLoopHead THEN offset ELSE offset - 1
\* message i decodes into an Item that the instance's filter accepts
Accepted(i) == broker[i].value.valid /\ Matches(filter, broker[i].value.obj)
\* message i decodes into an Item that the instance's filter rejects
Rejected(i) == broker[i].value.valid /\ ~Matches(filter, broker[i].value.obj)
\* the Items of the messages AddStory stored
StoredItems == {broker[i].value.obj : i \in Range(storedLog)}
\* the ids that have an entry in the Item Index
IndexIds == {id \in StoreIds : stories[id] # 0}

\* C2 (filtered message does not block): the loop is handed every offset once
\* and in order, whatever the filter said of the earlier ones; every message
\* the loop has finished with that decodes and matches was stored, also after
\* rejected ones; and the loop ends on shutdown only.
C2_FilteredAdvances ==
    /\ fetchLog = [i \in 1..offset |-> i]
    /\ \A i \in 1..Processed : Accepted(i) => i \in Range(storedLog)
    /\ \A i \in Range(storedLog) : Accepted(i)
    /\ cpc = "done" => ctxDone

\* a message was rejected and a later message was stored
C2_Witness ==
    \E i, j \in 1..Processed : i < j /\ Rejected(i) /\ j \in Range(storedLog)

\* C3 (last write wins): between two messages, an id with accepted messages
\* among those processed maps to the Item of the last of them, whatever the
\* query handlers are doing.
C3_LastWriteWins ==
    AtLoopHead =>
        \A id \in StoreIds :
            LET acc == {i \in 1..offset : Accepted(i) /\ broker[i].value.obj.id = id}
            IN  acc # {} =>
                    /\ stories[id] # 0
                    /\ heap[stories[id]] = broker[CHOOSE i \in acc : \A j \in acc : j <= i].value.obj

\* two accepted messages of one id with different scores were ingested while
\* a handler holds the pointer to the first one
C3_Witness ==
    /\ AtLoopHead
    /\ \E i, j \in 1..offset :
          /\ i < j /\ Accepted(i) /\ Accepted(j)
          /\ broker[i].value.obj.id = broker[j].value.obj.id
          /\ broker[i].value.obj.score # broker[j].value.obj.score
          /\ stories[broker[j].value.obj.id] = j
          /\ \E r \in Readers : rpc[r] \in {"filter", "sort"} /\ i \in rsnap[r]

\* C4 (no torn reads): every record a handler has read through its pointers
\* or put in its response, and every record the index points to, is equal,
\* field for field, to the Item of one stored message.
C4_NoTornReads ==
    /\ \A r \in Readers : rread[r] \cup Range(resp[r]) \subseteq StoredItems
    /\ \A r \in Readers : \A a \in rsnap[r] : heap[a] \in StoredItems
    /\ \A id \in IndexIds : heap[stories[id]] \in StoredItems

\* a handler answered from a snapshot taken before an upsert replaced one of
\* its entries
C4_Witness ==
    \E r \in Readers :
        /\ rpc[r] = "done"
        /\ resp[r] # <<>>
        /\ \E a \in rsnap[r] : stories[heap[a].id] # a /\ heap[stories[heap[a].id]] # heap[a]

\* C7 (passthrough default): with no constraint configured, every message the
\* loop has finished with that decodes was stored.
C7_Passthrough ==
    config = PassthroughConfig =>
        \A i \in 1..Processed : broker[i].value.valid => i \in Range(storedLog)

\* the passthrough instance stored stories of both scores after skipping an
\* undecodable message
C7_Witness ==
    /\ config = PassthroughConfig
    /\ \E i, j, k \in 1..Processed :
          /\ ~broker[i].value.valid
          /\ j \in Range(storedLog) /\ k \in Range(storedLog)
          /\ broker[j].value.obj.score # broker[k].value.obj.score

\* C8 (index satisfies the filter): every Item in the Item Index, and every
\* Item of a /stories response, matches the instance's filter.
C8_IndexMatchesFilter ==
    /\ \A id \in IndexIds : Matches(filter, heap[stories[id]])
    /\ \A r \in Readers : \A s \in Range(resp[r]) : Matches(filter, s)

\* a filtering instance rejected a message and answered a request with a
\* stored story
C8_Witness ==
    /\ filter.enabled
    /\ \E i \in 1..Processed : Rejected(i)
    /\ \E r \in Readers : resp[r] # <<>>

\* C9 (decode failure is skipped): the step that follows a failed decode
\* leaves the Item Index and the read position as they are and goes back to
\* the head of the loop; no undecodable message is ever stored.
C9_DecodeFailureSkipped ==
    /\ [](\A i \in Range(storedLog) : broker[i].value.valid)
    /\ [][(cpc = "decode" /\ ~msg.valid /\ cpc' # cpc) =>
             (cpc' = "check" /\ stories' = stories /\ offset' = offset
              /\ \A id \in IndexIds : heap'[stories[id]] = heap[stories[id]])]_vars

\* an undecodable message was skipped and a later message was stored
C9_Witness ==
    \E i, j \in 1..Processed : i < j /\ ~broker[i].value.valid /\ j \in Range(storedLog)

\* --- Producer/Scraper

\* the topic holds at most one message per item id
C1_AtMostOneMessagePerId ==
    \A i, j \in 1..Len(broker) :
        broker[i].value.obj.id = broker[j].value.obj.id => i = j

\* the waits before retries 1 to 5, in seconds
RetryWaits == <<1, 2, 4, 8, 16>>

\* C10 (bounded retry with doubling backoff): a call of publishStoryToKafka
\* starts at most 6 write attempts, one initial and at most 5 retries; each
\* retry follows one wait and the waits are 1, 2, 4, 8, 16 seconds in this
\* order; the call returns success only on a nil result of its current
\* attempt, and once it has returned it starts no attempt and no wait.
C10_BoundedRetry ==
    /\ [](\A c \in 1..Len(pubs) :
            /\ pubs[c].attempts <= 6
            /\ Len(pubs[c].waits) <= 5
            /\ pubs[c].waits = SubSeq(RetryWaits, 1, Len(pubs[c].waits))
            /\ pubs[c].attempts \in {Len(pubs[c].waits), Len(pubs[c].waits) + 1}
            /\ pubs[c].result = "ok" => pubs[c].attempts >= 1
            /\ pubs[c].result = "exhausted" => pubs[c].attempts = 6)
    /\ [][\A c \in 1..Len(pubs) :
            (/\ pubs[c].result # "running"
             /\ Len(pubs') = Len(pubs)
             /\ pubs'[c].id = pubs[c].id) => pubs'[c] = pubs[c]]_vars
    /\ [][(ppc \in {"select", "recv"} /\ errChan = "nil" /\ ~pctx /\ ppc' # ppc) =>
             (ppc' = "id" /\ pubs' = [pubs EXCEPT ![Len(pubs)].result = "ok"])]_vars
    /\ [][\A c \in 1..Len(pubs) :
            (/\ Len(pubs') = Len(pubs)
             /\ pubs[c].result = "running"
             /\ pubs'[c].result = "ok") => errChan = "nil"]_vars

\* a call succeeded on its fifth retry, after waiting 1, 2, 4, 8 and 16
\* seconds
C10_Witness ==
    \E c \in 1..Len(pubs) :
        /\ pubs[c].result = "ok"
        /\ pubs[c].attempts = 6
        /\ pubs[c].waits = RetryWaits

\* C11 (retry exhaustion is not fatal): the step that ends a call whose
\* retries ran out reports the error and goes to the head of the loop over the
\* ids with the next index, leaving the list, the source and the poll as they
\* are; the heads of the two loops pass over nothing while ctx is live; and
\* the process exits only after a shutdown signal.
C11_ExhaustedContinues ==
    /\ [](exited => pctx)
    /\ [][(ppc = "afterSelect" /\ ~pctx /\ attempt >= MaxRetries /\ ppc' # ppc) =>
             /\ ppc' = "id" /\ idIdx' = idIdx + 1
             /\ pubs' = [pubs EXCEPT ![Len(pubs)].result = "exhausted"]
             /\ UNCHANGED <<ids, srcOrder, srcIdx, tick, seenStories, exited>>]_vars
    /\ [][(ppc = "id" /\ ~pctx /\ idIdx <= Len(ids) /\ ppc' # ppc) =>
             (ppc' = "fetchStory" /\ UNCHANGED <<ids, idIdx, srcIdx>>)]_vars
    /\ [][(ppc = "id" /\ idIdx > Len(ids) /\ ppc' # ppc /\ ~exited') =>
             (ppc' = "source" /\ srcIdx' = srcIdx + 1)]_vars
    /\ [][(ppc = "source" /\ ~pctx /\ srcIdx <= Len(srcOrder) /\ ppc' # ppc) =>
             (ppc' = "fetchIDs" /\ UNCHANGED <<srcOrder, srcIdx>>)]_vars

\* in the first poll one id ran out of retries and another id, listed after
\* it, has had a write attempt
C11_Witness ==
    /\ tick = 1
    /\ exhausted # {}
    /\ \E c \in 1..Len(pubs) : pubs[c].id \notin exhausted /\ pubs[c].attempts >= 1

\* C12 (no retry on a later tick): an id is in the seen set from the step
\* that starts its publish, before the first write attempt; the seen set
\* never loses an id; and no write attempt is ever started for an id whose
\* publish ran out of retries.
C12_ExhaustedNeverRetried ==
    /\ [](exhausted \subseteq seenStories)
    /\ [](\A c \in 1..Len(pubs) : pubs[c].id \in seenStories)
    /\ [][seenStories \subseteq seenStories']_vars
    /\ [][(ppc = "add" /\ ppc' = "attempt") =>
             /\ pstory.id \notin seenStories /\ pstory.id \in seenStories'
             /\ pubs'[Len(pubs')].id = pstory.id /\ pubs'[Len(pubs')].attempts = 0]_vars
    /\ [][(ppc = "attempt" /\ ppc' = "select") =>
             pubs[Len(pubs)].id \notin exhausted]_vars

\* in the second poll an id that ran out of retries in the first one was
\* fetched with a title and passed over: the latest call is still the one of
\* another id
C12_Witness ==
    /\ tick = 2
    /\ ppc = "id"
    /\ ids = <<pstory.id>>
    /\ idIdx = 2
    /\ pstory.title # <<>>
    /\ pstory.id \in exhausted
    /\ \E c \in 1..Len(pubs) : pubs[c].id # pstory.id

\* C13 (shutdown aborts the waits): a cancel that finds the call parked in
\* its select wakes it with the ctx.Done() case; from there, and from a
\* backoff with ctx cancelled, the call's next step returns the shutdown
\* error without a wait completed; and once ctx is cancelled no write attempt
\* and no wait is added to any call.
C13_ShutdownAbortsWait ==
    /\ [](ppc = "cancelled" => pctx)
    /\ [][(ppc = "parked" /\ ~pctx /\ pctx') => ppc' = "cancelled"]_vars
    /\ [][(ppc \in {"cancelled", "backoff"} /\ pctx /\ ppc' # ppc /\ ~exited') =>
             /\ ppc' = "id"
             /\ pubs' = [pubs EXCEPT ![Len(pubs)].result = "shutdown"]]_vars
    /\ [][(pctx /\ pubs' # pubs) =>
             \A c \in 1..Len(pubs') :
                 \/ pubs'[c].attempts = 0
                 \/ /\ c <= Len(pubs)
                    /\ pubs'[c].id = pubs[c].id
                    /\ pubs'[c].attempts = pubs[c].attempts
                    /\ pubs'[c].waits = pubs[c].waits]_vars

\* the signal found a retry parked in its select: the select is woken with
\* the ctx.Done() case while the write result is still outstanding
C13_Witness ==
    /\ ppc = "cancelled"
    /\ Writing
    /\ \E c \in 1..Len(pubs) : pubs[c].attempts >= 2 /\ pubs[c].result = "running"

C15_ShutdownTerminates ==
    /\ pctx ~> exited
    /\ [][(ppc = "run" /\ ppc' # ppc /\ ~exited') =>
             (ppc' = "poll" \/ (pctx /\ ppc' = "closing"))]_vars
    /\ [][(ppc = "closing" /\ ppc' # ppc) => (exited' /\ inflight' = EmptyBag)]_vars
    /\ [](exited => (pctx /\ ppc = "exited"))

\* the forced exit ended the process inside a call of publishStoryToKafka
\* that had started a write and never returned
C15_Witness ==
    /\ exited
    /\ ppc = "exited"
    /\ \E c \in 1..Len(pubs) : pubs[c].result = "running" /\ pubs[c].attempts >= 1

\* C16 (a failed id list does not abort the tick): the step in which
\* fetchStoryIDs fails for a source changes neither the Seen-Set nor the
\* broker nor the publish record and goes to the head of the loop over the
\* sources with the next source of the same poll; the failed source is not
\* the current source again in that poll; and the head of the loop goes on
\* to fetch the next source's list while ctx is live.
C16_ListFailureSkipsSource ==
    /\ [][(listFailed' # listFailed /\ listFailed' # {}) =>
             /\ ppc = "fetchIDs" /\ ppc' = "source"
             /\ listFailed' = listFailed \cup {srcOrder[srcIdx]}
             /\ srcIdx' = srcIdx + 1
             /\ UNCHANGED <<seenStories, broker, pubs, inflight, srcOrder, tick, exited>>]_vars
    /\ [](ppc \in {"source", "fetchIDs", "id", "fetchStory", "add", "attempt", "select",
                   "parked", "recv", "cancelled", "afterSelect", "backoff"} =>
             (srcIdx <= Len(srcOrder) => srcOrder[srcIdx] \notin listFailed))
    /\ [][(ppc = "source" /\ ~pctx /\ listFailed # {} /\ srcIdx <= Len(srcOrder)
             /\ ppc' # ppc) =>
             (ppc' = "fetchIDs" /\ UNCHANGED <<srcOrder, srcIdx, tick>>)]_vars

\* in the first poll the id list of the first source failed and a story of
\* the second source was written to the broker
C16_Witness ==
    /\ tick = 1
    /\ srcIdx = 2
    /\ listFailed = {srcOrder[1]}
    /\ seenStories = {pstory.id}
    /\ Len(broker) = 1
    /\ broker[1] = KafkaMessage(srcOrder[2], JSONOf(pstory))

\* C17 (an item without a title is skipped): the step in which fetchStory
\* returns an item without a title changes neither the Seen-Set nor the
\* broker nor the publish record and goes on with the next id; the Seen-Set
\* grows only in addAndPublishStory, by the id of an item with a title; and
\* an item with a title whose id is not in the Seen-Set is marked and handed
\* to publishStoryToKafka, whether it was skipped before or not.
C17_NoTitleSkipped ==
    /\ [][(ppc = "fetchStory" /\ ppc' # ppc /\ ~exited' /\ pstory'.title = <<>>) =>
             /\ ppc' = "id" /\ idIdx' = idIdx + 1
             /\ UNCHANGED <<seenStories, broker, pubs, inflight, ids, srcOrder, srcIdx>>]_vars
    /\ [][seenStories' # seenStories =>
             /\ ppc = "add" /\ pstory.title # <<>>
             /\ seenStories' = seenStories \cup {pstory.id}]_vars
    /\ [][(ppc = "fetchStory" /\ ppc' # ppc /\ ~exited' /\ pstory'.title # <<>>
             /\ pstory' # pstory) => ppc' = "add"]_vars
    /\ [][(ppc = "add" /\ pstory.id \notin seenStories /\ ppc' # ppc /\ ~exited') =>
             /\ pstory.id \in seenStories'
             /\ pubs'[Len(pubs')].id = pstory.id
             /\ pubs'[Len(pubs')].result = "running"]_vars

\* an id that was passed over without a title in the first poll is the first
\* item of the second poll, now with a title, and its message was written to
\* the broker
C17_Witness ==
    /\ tick = 2
    /\ srcIdx = 1
    /\ idIdx = 1
    /\ pstory.id \in skipped
    /\ pstory.title # <<>>
    /\ \E c \in 1..Len(pubs) :
          pubs[c].id = pstory.id /\ pubs[c].result = "running" /\ pubs[c].attempts = 1
    /\ errChan = "nil"
    /\ \E i \in 1..Len(broker) : broker[i].value.obj.id = pstory.id

\* C28 as stated (republished on every poll): an item with a title whose id
\* is in the seen set is handed to publishStoryToKafka again whenever a poll
\* observes it.
C28_RepublishedEveryPoll ==
    [][(ppc = "add" /\ pstory.id \in seenStories /\ ppc' # ppc /\ ~exited') =>
          ppc' = "attempt"]_vars

\* C28 (re-observed, not republished): every id of a poll's listing is
\* fetched again while ctx is live, seen or not; an item whose id is in the
\* seen set is passed over by addAndPublishStory, which leaves the seen set,
\* the publish record, the broker and the writes in flight as they are; and a
\* call of publishStoryToKafka begins only for an id that is not in the seen
\* set.
C28_SeenNotRepublished ==
    /\ [][(ppc = "id" /\ idIdx <= Len(ids) /\ ~pctx /\ ppc' # ppc) =>
             (ppc' = "fetchStory" /\ UNCHANGED <<ids, idIdx>>)]_vars
    /\ [][(ppc = "add" /\ pstory.id \in seenStories /\ ppc' # ppc /\ ~exited') =>
             /\ ppc' = "id" /\ idIdx' = idIdx + 1
             /\ UNCHANGED <<seenStories, pubs, broker, inflight>>]_vars
    /\ [][(ppc' = "attempt" /\ ppc # "attempt" /\ ppc # "backoff") =>
             /\ ppc = "add"
             /\ pstory.id \notin seenStories]_vars

\* the first source of the second poll lists an id that was published in the
\* first poll under the other source: the item was fetched with its title and
\* passed over, and the topic holds its one message
C28_Witness ==
    /\ tick = 2
    /\ srcIdx = 1
    /\ ppc = "id"
    /\ ids = <<pstory.id>>
    /\ idIdx = 2
    /\ pstory.title # <<>>
    /\ \E c \in 1..Len(pubs) :
          /\ pubs[c].id = pstory.id
          /\ pubs[c].result = "ok"
          /\ pubs[c].source # srcOrder[srcIdx]
    /\ Len(broker) = 1
    /\ broker[1].value.obj.id = pstory.id

\* C33 as stated (only unseen ids are fetched): fetchStory is called only for
\* an id that is not in the Seen-Set.
C33_SeenNotFetched == ppc = "fetchStory" => ids[idIdx] \notin seenStories

\* C33 (fetched first, checked after): while ctx is live every id of the
\* truncated listing is fetched, whether it is in the Seen-Set or not; the
\* Seen-Set is consulted in addAndPublishStory only, for the item that the
\* fetch returned with a title, and decides nothing but whether
\* publishStoryToKafka is called for it.
C33_FetchedThenChecked ==
    /\ [][(/\ ppc = "id" /\ idIdx <= Len(ids) /\ ~pctx /\ ~exited'
           /\ <<ppc, idIdx>>' # <<ppc, idIdx>>) =>
             (ppc' = "fetchStory" /\ ids'[idIdx'] = ids[idIdx])]_vars
    /\ [](ppc = "add" => (pstory.id = ids[idIdx] /\ pstory.title # <<>>))
    /\ [][(ppc = "add" /\ ppc' # ppc /\ ~exited') =>
             ((ppc' = "attempt") <=> (pstory.id \notin seenStories))]_vars

\* in the second poll fetchStory is about to be called for an id that the
\* first poll marked seen and published
C33_Witness ==
    /\ tick = 2
    /\ ppc = "fetchStory"
    /\ ids[idIdx] \in seenStories
    /\ \E i \in 1..Len(broker) : broker[i].value.obj.id = ids[idIdx]

\* the step in which fetchStory returns an error
FetchFails == ppc = "fetchStory" /\ ppc' = "id" /\ pstory' = pstory

\* C34 (no retry of an item fetch within a tick): in one poll fetchStory is
\* called at most once for each position of each source's list; a call that
\* fails changes neither the Seen-Set nor the broker nor the publish record
\* and the loop goes on with the next id; and an id whose fetch failed before
\* is treated like any other when a list brings it again: it is fetched
\* while ctx is live and, when the fetch returns it with a title and it is
\* not in the Seen-Set, it is marked and handed to publishStoryToKafka.
C34_FetchOncePerTick ==
    /\ [][(ppc' = "fetchStory" /\ ppc # "fetchStory") =>
             <<srcOrder'[srcIdx'], idIdx'>> \notin fetchedAt]_vars
    /\ [][FetchFails =>
             /\ idIdx' = idIdx + 1
             /\ ids[idIdx] \in fetchFailed'
             /\ UNCHANGED <<seenStories, broker, pubs, inflight>>]_vars
    /\ [][(/\ ppc = "id" /\ idIdx <= Len(ids) /\ ids[idIdx] \in fetchFailed
           /\ ~pctx /\ ~exited' /\ <<ppc, idIdx>>' # <<ppc, idIdx>>) =>
             ppc' = "fetchStory"]_vars
    /\ [][(/\ ppc = "add" /\ pstory.id \in fetchFailed /\ pstory.id \notin seenStories
           /\ ppc' # ppc /\ ~exited') =>
             (ppc' = "attempt" /\ pstory.id \in seenStories')]_vars

\* the fetch of an id failed in the first poll; the first source of the
\* second poll listed it again, its fetch returned it with a title, and its
\* message is on the topic
C34_Witness ==
    /\ tick = 2
    /\ srcIdx = 1
    /\ ppc = "id"
    /\ fetchedAt = {<<srcOrder[1], 1>>}
    /\ pstory.id \in fetchFailed
    /\ Len(pubs) > 0
    /\ pubs[Len(pubs)].id = pstory.id
    /\ pubs[Len(pubs)].result = "ok"
    /\ Len(broker) = 1
    /\ broker[1].value.obj.id = pstory.id

\* the positions of the topic that hold a message for the item id
MessagesOf(id) == {i \in 1..Len(broker) : broker[i].value.obj.id = id}

\* C36 (one message per item, keyed by the list it was found in): when the
\* publishStoryToKafka call of an item has returned success, the topic holds
\* exactly one message for the item, and its key is the label of the list
\* under which addAndPublishStory found the id unseen.
C36_OneMessageUnderItsLabel ==
    \A c \in 1..Len(pubs) :
        pubs[c].result = "ok" =>
            /\ Cardinality(MessagesOf(pubs[c].id)) = 1
            /\ \A i \in MessagesOf(pubs[c].id) : broker[i].key = pubs[c].source

\* the part of C36 about the key: every message of the item of the latest
\* call, on the topic or in a write left running, carries the label of the
\* list under which the id was found unseen
C36_KeyIsLabelOfList ==
    \A c \in 1..Len(pubs) :
        /\ \A i \in MessagesOf(pubs[c].id) : broker[i].key = pubs[c].source
        /\ \A m \in BagToSet(inflight) :
               m.value.obj.id = pubs[c].id => m.key = pubs[c].source

\* the number of write attempts for the item id whose WriteMessages has not
\* returned: those left running and the one of the current attempt
WritesInFlight(id) ==
    LET left == {m \in BagToSet(inflight) : m.value.obj.id = id}
        leftCount == IF left = {} THEN 0 ELSE CopiesIn(CHOOSE m \in left : TRUE, inflight)
    IN  leftCount + (IF Writing /\ pstory.id = id THEN 1 ELSE 0)

\* C39 (the reported outcome agrees with the broker): when the call of
\* publishStoryToKafka for an item has returned success the topic holds
\* exactly one message for the item; when it has returned an error the topic
\* holds none and no write attempt for the item is still running; and at no
\* time are two write attempts for one item in flight together.
C39_OutcomeAgreesWithBroker ==
    \A c \in 1..Len(pubs) :
        /\ pubs[c].result = "ok" => Cardinality(MessagesOf(pubs[c].id)) = 1
        /\ pubs[c].result \in {"exhausted", "shutdown"} =>
               (MessagesOf(pubs[c].id) = {} /\ WritesInFlight(pubs[c].id) = 0)
        /\ WritesInFlight(pubs[c].id) <= 1

\* the first n elements of the list l, all of l when it is shorter
FirstIds(l, n) == [i \in 1..(IF Len(l) < n THEN Len(l) ELSE n) |-> l[i]]

\* C40 (only the first storiesToFetch ids of a list are processed): the ids
\* the loop ranges over are the first storiesToFetch ids of the list as the
\* upstream source returned it, in its order; fetchStory is called for the
\* positions of that prefix only, each after the positions before it; and an
\* id is marked seen, and a publish call begins, only for the id at the
\* current position of the prefix.
C40_OnlyFirstIdsProcessed ==
    /\ [](ids = FirstIds(listed, StoriesToFetch))
    /\ [](\A sp \in fetchedAt : sp[2] <= StoriesToFetch)
    /\ [](ppc = "fetchStory" =>
             /\ idIdx <= StoriesToFetch
             /\ ids[idIdx] = listed[idIdx]
             /\ \A p \in 1..(idIdx - 1) : <<srcOrder[srcIdx], p>> \in fetchedAt)
    /\ [][seenStories' # seenStories =>
             (idIdx <= StoriesToFetch /\ seenStories' = seenStories \cup {listed[idIdx]})]_vars
    /\ [][(ppc' = "attempt" /\ ppc = "add") =>
             (idIdx <= StoriesToFetch /\ pubs'[Len(pubs')].id = listed[idIdx])]_vars

\* the source returned a list of two ids: the first was fetched, marked seen
\* and published, and the loop over the list has ended with the second one
\* neither fetched nor seen
C40_Witness ==
    /\ ppc = "id"
    /\ Len(listed) = 2
    /\ idIdx > Len(ids)
    /\ fetchedAt = {<<srcOrder[srcIdx], 1>>}
    /\ seenStories = {listed[1]}
    /\ Len(broker) = 1
    /\ broker[1].value.obj.id = listed[1]

\* --- Query Layer and Item Index

\* the position that follows p in handleGetStories
NextPos(p) ==
    CASE p = "rlock" -> "copy" [] p = "copy" -> "filter" [] p = "filter" -> "sort"
      [] p = "sort" -> "done" [] OTHER -> "idle"

\* C18 (atomic snapshot): GetAllStories records the index of one instant
\* inside the request; the response holds exactly the Items of that index
\* state that the request's constraints keep, each once, whatever ingestion
\* has done to the index since; a request in progress only moves on to its
\* next position, it has no failure exit; and no step of the ingestion loop,
\* a fetch or decode error included, changes anything of a request.
C18_AtomicSnapshot ==
    /\ [](\A r \in Readers :
            rpc[r] = "done" =>
                /\ Range(resp[r]) = {s \in rindex[r] : Kept(s, rquery[r])}
                /\ Len(resp[r]) = Cardinality({s \in rindex[r] : Kept(s, rquery[r])}))
    /\ [][\A r \in Readers :
            (rpc[r] = "copy" /\ rpc'[r] # "copy") => rindex'[r] = IndexItems]_vars
    /\ [][\A r \in Readers :
            rpc[r] \in {"rlock", "copy", "filter", "sort"} =>
                rpc'[r] \in {rpc[r], NextPos(rpc[r])}]_vars
    /\ [][cpc' # cpc => UNCHANGED readerVars]_vars

\* a response that leaves out an Item of its snapshot, given while the index
\* has moved on from that snapshot
C18_Witness ==
    \E r \in Readers :
        /\ rpc[r] = "done"
        /\ resp[r] # <<>>
        /\ Len(resp[r]) < Cardinality(rindex[r])
        /\ IndexItems # rindex[r]

\* C19 as stated (ingestion never blocks on readers): AddStory never waits
\* for its lock while a handler holds the read lock.
C19_NeverDelayedByReaders == ~(cpc = "write" /\ rcount > 0)

\* C19 (ingestion blocks only on a snapshot copy): the read lock is held by
\* the handlers inside GetAllStories and by no others; AddStory can complete
\* as soon as none holds it, whatever the handlers are filtering, sorting or
\* encoding; and no handler takes the read lock once AddStory waits for the
\* lock.
C19_DelayedOnlyByCopy ==
    /\ [](rcount = Cardinality({r \in Readers : rpc[r] = "copy"}))
    /\ []((cpc = "write" /\ rcount = 0) => ENABLED ConsumerAddStoryWrite)
    /\ [][writerPending => rcount' <= rcount]_vars

\* AddStory has replaced an entry of the index while a handler was filtering
\* or sorting the snapshot it took before
C19_Witness ==
    \E r \in Readers :
        /\ rpc[r] \in {"filter", "sort"}
        /\ rindex[r] # {}
        /\ IndexItems # rindex[r]
        /\ cpc = "check"

\* the Item of the last stored message that carries id, if there is one
LastStored(id) ==
    LET st == {i \in Range(storedLog) : broker[i].value.obj.id = id}
    IN  IF st = {} THEN {} ELSE {broker[CHOOSE i \in st : \A j \in st : j <= i].value.obj}

\* C20 (queries are read-only): no step of a /stories or /health handler
\* changes the map of the store or a record; the index holds, for every id,
\* the Item of the last message AddStory stored for it and nothing else; and
\* the sort leaves the handler's snapshot and its kept set as they are, the
\* response being the kept Items in some order.
C20_QueriesReadOnly ==
    /\ [][readerVars' # readerVars => UNCHANGED <<stories, heap>>]_vars
    /\ [](\A id \in StoreIds :
            IF stories[id] = 0 THEN LastStored(id) = {}
            ELSE LastStored(id) = {heap[stories[id]]})
    /\ [][\A r \in Readers :
            (rpc[r] = "sort" /\ rpc'[r] = "done") =>
                /\ rsnap'[r] = rsnap[r] /\ rfilt'[r] = rfilt[r]
                /\ Range(resp'[r]) = {heap[a] : a \in rfilt[r]}
                /\ Len(resp'[r]) = Cardinality(rfilt[r])]_vars

\* a handler has sorted and encoded two stories and the index still holds
\* both
C20_Witness ==
    \E r \in Readers :
        /\ rpc[r] = "done"
        /\ Len(resp[r]) = 2
        /\ IndexItems = Range(resp[r])

\* the timestamps and the scores along a response
TimesOf(o) == [i \in 1..Len(o) |-> o[i].time]
ScoresOf(o) == [i \in 1..Len(o) |-> o[i].score]
NonDecreasing(x) == \A i, j \in 1..Len(x) : i < j => x[i] <= x[j]
NonIncreasing(x) == \A i, j \in 1..Len(x) : i < j => x[i] >= x[j]

\* C21 (responses are ordered by the requested key): for every index content
\* and every constraints, the timestamps of a response to sort=oldest never
\* decrease along the list, those of a response to sort=latest never
\* increase, and the scores of a response to sort=popularity never increase.
C21_SortedByKey ==
    \A r \in Readers :
        rpc[r] = "done" =>
            /\ rquery[r].sort = "oldest" => NonDecreasing(TimesOf(resp[r]))
            /\ rquery[r].sort = "latest" => NonIncreasing(TimesOf(resp[r]))
            /\ rquery[r].sort = "popularity" => NonIncreasing(ScoresOf(resp[r]))

\* three Items with the timestamps 100, 300, 200 in the order of their ids
\* were returned as 100, 200, 300 for sort=oldest
C21_Witness ==
    \E r \in Readers :
        /\ rpc[r] = "done"
        /\ rquery[r].sort = "oldest"
        /\ TimesOf(resp[r]) = <<100, 200, 300>>
        /\ TimesOf(heap) = <<100, 300, 200>>

\* C22 (sort falls back to latest): a request whose sort parameter is none of
\* latest, oldest and popularity, the empty one included, gets a response:
\* the Items its constraints keep, with timestamps that never increase; and
\* the orders the sort can leave are those it can leave for sort=latest.
C22_SortFallback ==
    \A r \in Readers :
        rquery[r].sort \notin {"latest", "oldest", "popularity"} =>
            /\ rpc[r] = "sort" =>
                  /\ SortedOrders(rfilt[r], heap, rquery[r].sort) =
                         SortedOrders(rfilt[r], heap, "latest")
                  /\ SortedOrders(rfilt[r], heap, rquery[r].sort) # {}
            /\ rpc[r] = "done" =>
                  /\ NonIncreasing(TimesOf(resp[r]))
                  /\ Range(resp[r]) = {it \in rindex[r] : Kept(it, rquery[r])}

\* a request with an unknown sort value got three Items, latest first, in an
\* order that is not the order of their ids
C22_Witness ==
    \E r \in Readers :
        /\ rpc[r] = "done"
        /\ rquery[r].sort = "bogus"
        /\ TimesOf(resp[r]) = <<300, 200, 100>>
        /\ TimesOf(heap) = <<100, 300, 200>>

\* C23 (score bounds are inclusive): for a request with minScore=a and
\* maxScore=b, no returned Item has a score below a or above b, so none with
\* a-1 or b+1; and when the request has no time constraint and a <= b, every
\* indexed Item whose score is a or b is returned.
C23_InclusiveScoreBounds ==
    \A r \in Readers :
        (rpc[r] = "done" /\ rquery[r].minScore.kind = "ok" /\ rquery[r].maxScore.kind = "ok") =>
            LET a == rquery[r].minScore.v
                b == rquery[r].maxScore.v
            IN  /\ \A it \in Range(resp[r]) : a <= it.score /\ it.score <= b
                /\ (a <= b /\ rquery[r].since = Absent /\ rquery[r].until = Absent) =>
                       \A it \in rindex[r] : it.score \in {a, b} => it \in Range(resp[r])

\* a request with minScore = maxScore = 1 over Items with the scores 0, 1 and
\* 2 returned the one with score 1
C23_Witness ==
    \E r \in Readers :
        /\ rpc[r] = "done"
        /\ rquery[r].minScore = Given(1) /\ rquery[r].maxScore = Given(1)
        /\ rquery[r].since = Absent /\ rquery[r].until = Absent
        /\ ScoresOf(heap) = <<0, 1, 2>>
        /\ ScoresOf(resp[r]) = <<1>>

C25_TimeConstraints ==
    \A r \in Readers :
        rpc[r] = "done" =>
            LET q == rquery[r]
                InTime(it) ==
                    /\ q.since.kind = "ok" => it.time >= q.since.v
                    /\ q.until.kind = "ok" => it.time <= q.until.v
                InScore(it) == MinScoreOf(q) <= it.score /\ it.score <= MaxScoreOf(q)
            IN  /\ \A it \in Range(resp[r]) : InTime(it)
                /\ \A it \in rindex[r] : (InTime(it) /\ InScore(it)) => it \in Range(resp[r])

\* the raw value of a parameter, with a value that does not parse taken away
Omitted(p) == IF p = Malformed THEN Absent ELSE p

\* the request without its malformed parameters
WithoutMalformed(q) ==
    Query(Omitted(q.minScore), Omitted(q.maxScore), Omitted(q.since), Omitted(q.until), q.sort)

\* C26 (malformed parameters are ignored): the Items the handler keeps for a
\* request, and the orders its sort can leave, are those of the same request
\* without its malformed parameters; the response is one of these orders;
\* and the parameters that parse still bound the response.
C26_MalformedIgnored ==
    \A r \in Readers :
        LET q == rquery[r] IN
        /\ rpc[r] \in {"sort", "done"} =>
              rfilt[r] = {a \in rsnap[r] : Kept(heap[a], WithoutMalformed(q))}
        /\ rpc[r] = "done" =>
              /\ Range(resp[r]) = {it \in rindex[r] : Kept(it, WithoutMalformed(q))}
              /\ \A it \in Range(resp[r]) :
                    /\ q.minScore.kind = "ok" => it.score >= q.minScore.v
                    /\ q.maxScore.kind = "ok" => it.score <= q.maxScore.v
                    /\ (q.since.kind = "ok" /\ q.since.v > 0) => it.time >= q.since.v
                    /\ (q.until.kind = "ok" /\ q.until.v > 0) => it.time <= q.until.v

\* a request with a malformed maxScore and until and with minScore=1 and
\* since=200 returned Items, and left out one for its score and one for its
\* time
C26_Witness ==
    \E r \in Readers :
        /\ rpc[r] = "done"
        /\ rquery[r].maxScore = Malformed /\ rquery[r].until = Malformed
        /\ rquery[r].minScore = Given(1) /\ rquery[r].since = Given(200)
        /\ resp[r] # <<>>
        /\ \E it \in rindex[r] : it.score < 1
        /\ \E it \in rindex[r] : it.score >= 1 /\ it.time < 200

\* --- message keys

\* the Item Index a consumer with filter f has after the first n messages of
\* the stream b: for each id the Item of the last message that decodes and
\* matches, if any
RECURSIVE IndexAfter(_, _, _)
IndexAfter(f, b, n) ==
    IF n = 0 THEN [id \in StoreIds |-> {}]
    ELSE LET prev == IndexAfter(f, b, n - 1)
             v == MessageValue(b[n])
         IN  IF v.valid /\ Matches(f, v.obj) THEN [prev EXCEPT ![v.obj.id] = {v.obj}]
             ELSE prev

\* the streams of n messages that carry the values of b in its order, under
\* any keys
KeyVariants(b, n) ==
    {kb \in [1..n -> KeyedMessages] : \A i \in 1..n : kb[i].value = b[i].value}

\* the Item Index as it is
IndexNow == [id \in StoreIds |-> IF stories[id] = 0 THEN {} ELSE {heap[stories[id]]}]

\* C29 (keys are not interpreted): between two messages, the Item Index of
\* the consumer is the index that a consumer with the same filter has after
\* the same number of messages of any stream that carries the same values
\* under other keys.
C29_KeysNotInterpreted ==
    AtLoopHead => \A kb \in KeyVariants(broker, offset) : IndexNow = IndexAfter(filter, kb, offset)

\* the consumer has stored stories from messages of both keys, and again a
\* story of the id it stored first
C29_Witness ==
    /\ AtLoopHead
    /\ offset = 3
    /\ storedLog = <<1, 2, 3>>
    /\ broker[1].key # broker[2].key
    /\ broker[1].value.obj.id = broker[3].value.obj.id
    /\ broker[1].value # broker[3].value

\* --- the index as a function of the stream

\* the reference map over the first n messages of the topic: each id goes to
\* the Item of the last message that decodes and matches the filter, an id
\* without such a message has no entry
ReferenceIndex(n) ==
    [id \in StoreIds |->
        LET acc == {i \in 1..n : Accepted(i) /\ broker[i].value.obj.id = id}
        IN  IF acc = {} THEN {}
            ELSE {broker[CHOOSE i \in acc : \A j \in acc : j <= i].value.obj}]

\* C37 (the index refines the reference map): in every state, whatever the
\* query handlers are doing, the Item Index is the reference map over the
\* messages the loop body has finished with.
C37_IndexIsReferenceMap == IndexNow = ReferenceIndex(Processed)

\* the loop has finished with three messages while a handler is at work on
\* its snapshot: one id has a rejected message and then an accepted one, whose
\* Item is its entry, and the other id has a rejected message only and no
\* entry
C37_Witness ==
    /\ Processed = 3
    /\ \E r \in Readers : rpc[r] \in {"filter", "sort"}
    /\ \E i, j, k \in 1..3 :
          /\ i < j /\ Rejected(i) /\ Accepted(j) /\ Rejected(k)
          /\ broker[i].value.obj.id = broker[j].value.obj.id
          /\ broker[k].value.obj.id # broker[i].value.obj.id
          /\ IndexNow[broker[j].value.obj.id] = {broker[j].value.obj}
          /\ IndexNow[broker[k].value.obj.id] = {}

\* C38 (a rejected message leaves the index alone): the step in which the
\* filter rejects a story changes no entry of the Item Index, whether or not
\* the index holds an earlier version of its id, and goes back to the head
\* of the loop; and no step of the process takes an id out of the index.
C38_RejectedLeavesIndex ==
    /\ [][(cpc = "filter" /\ ~Matches(filter, heap[story]) /\ cpc' # cpc) =>
             (IndexNow' = IndexNow /\ cpc' = "check")]_vars
    /\ [][IndexIds \subseteq IndexIds']_vars

\* an accepted message of an id was stored, a later message of the same id
\* was rejected, and the entry of the id is still the Item of the first one
C38_Witness ==
    \E i, j \in 1..Processed :
        /\ i < j /\ Accepted(i) /\ Rejected(j)
        /\ broker[i].value.obj.id = broker[j].value.obj.id
        /\ IndexNow[broker[i].value.obj.id] = {broker[i].value.obj}

\* --- shutdown of the consumer

\* C35 as stated (no fetch after the signal): once s.cancel() has run, the
\* loop is handed no further message.
C35_NoFetchAfterSignal == lateLog = {}

\* C35 (shutdown is observed at the loop head): the loop returns only from
\* the select at its head or from a FetchMessage that fails, with ctx done in
\* both cases, so a message that was fetched is decoded, filtered and stored
\* whatever happens to ctx meanwhile; FetchMessage is called only after a
\* select that found ctx live, and a select that finds ctx done returns, also
\* after a fetch error that is not context.Canceled; a FetchMessage that was
\* called before the signal can still hand out a message after it, so at most
\* one message is fetched after the signal.
C35_ShutdownAtLoopHead ==
    /\ [][(cpc' = "done" /\ cpc # "done") => (cpc \in {"check", "fetch"} /\ ctxDone)]_vars
    /\ [][(cpc' = "fetch" /\ cpc # "fetch") => (cpc = "check" /\ ~ctxDone)]_vars
    /\ [][(cpc = "check" /\ ctxDone /\ cpc' # cpc) => cpc' = "done"]_vars
    /\ [][(cpc = "fetch" /\ cpc' = "check") => UNCHANGED <<offset, stories, fetchLog>>]_vars
    /\ [](Cardinality(lateLog) <= 1)
    /\ [](cpc = "done" => \A i \in 1..offset : Accepted(i) => i \in Range(storedLog))

\* the loop has returned; the one message it was handed after the signal was
\* decoded, accepted and stored
C35_Witness ==
    /\ cpc = "done"
    /\ Cardinality(lateLog) = 1
    /\ lateLog \subseteq Range(storedLog)
    /\ offset < Len(broker)

\* --- restarts of the consumer

====
